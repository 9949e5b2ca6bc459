--------------------------- MODULE SecretsAndKeys ---------------------------
(***************************************************************************)
(* Secret Manager and Cloud KMS: the secrets of                            *)
(* internal/state/gcp_services.go, the key rings and keys of               *)
(* internal/state/kms.go, and their handlers in internal/server.  A call   *)
(* of the Store is one step.  The handlers that create something look      *)
(* first, in a call of their own, and create in another; s.mu is free in   *)
(* between, and what they decided may be stale.  Encrypt and the signing   *)
(* requests read their key version in their last call: that is their step. *)
(***************************************************************************)
EXTENDS Naturals, FiniteSets, Sequences, Functions

CONSTANTS
  Secrets, Rings, KeyIds,  \* names
  Payloads, NoPayload,     \* contents of secret versions; the empty content
  Labels,                  \* label maps
  Algorithms,              \* of key versions; "symmetric" encrypts, others sign
  Clients,                 \* clients that create
  Nothing,                 \* the client waits for no answer
  MaxVersions,             \* bound: versions of a secret or key
  MaxMaterials             \* bound: key materials ever generated

Keys == Rings \X KeyIds    \* the name of a key holds that of its ring

ASSUME ConstantAssumptions ==
  /\ "symmetric" \in Algorithms /\ NoPayload \notin Payloads
  /\ MaxVersions \in Nat /\ MaxMaterials \in Nat

VARIABLES
  secrets,    \* s.data.Secrets: name -> [labels, versions]
  rings,      \* s.data.KMSKeyRings: names
  keys,       \* s.data.KMSCryptoKeys: name -> [algorithm, primary, versions]
  creating,   \* the create handler of each client, after its first call
  lastMaterial, \* key materials generated so far
  added,      \* history: what AddSecretVersion acknowledged
  issued      \* history: what Encrypt and the signing requests answered with

vars == <<secrets, rings, keys, creating, lastMaterial, added, issued>>
secretVars == <<secrets, added>>
keyVars == <<rings, keys, issued>>

Bind(f, x, y) == [z \in DOMAIN f \cup {x} |-> IF z = x THEN y ELSE f[z]]
Without(f, x) == [z \in DOMAIN f \ {x} |-> f[z]]
Empty == [x \in {} |-> {}]

Init ==
  /\ secrets = Empty /\ rings = {} /\ keys = Empty
  /\ creating = [c \in Clients |-> Nothing] /\ lastMaterial = 0
  /\ added = {} /\ issued = {}

Wait(c, request) == creating[c] = Nothing /\ creating' = [creating EXCEPT ![c] = request]
Answer(c) == creating' = [creating EXCEPT ![c] = Nothing]
Pending(c, what) == creating[c] # Nothing /\ creating[c].what = what

-----------------------------------------------------------------------------
(* Secrets.                                                                 *)

\* The handler's look: a secret that exists is answered with AlreadyExists.
LookForSecret(c, s, labels) ==
  /\ s \notin DOMAIN secrets
  /\ Wait(c, [what |-> "secret", name |-> s, labels |-> labels])
  /\ UNCHANGED <<secretVars, keyVars, lastMaterial>>

\* Seeded fault: the Store trusts the handler's look.
ReplaceSecret(c) ==
  /\ Pending(c, "secret")
  /\ secrets' = Bind(secrets, creating[c].name, [labels |-> creating[c].labels, versions |-> <<>>])
  /\ Answer(c)
  /\ UNCHANGED <<added, keyVars, lastMaterial>>

\* The Store returns a secret that exists by now as it is.
CreateSecret(c) ==
  /\ Pending(c, "secret")
  /\ secrets' = IF creating[c].name \in DOMAIN secrets THEN secrets
                ELSE Bind(secrets, creating[c].name,
                          [labels |-> creating[c].labels, versions |-> <<>>])
  /\ Answer(c)
  /\ UNCHANGED <<added, keyVars, lastMaterial>>

UpdateSecretLabels(s, labels) ==
  /\ s \in DOMAIN secrets
  /\ secrets' = [secrets EXCEPT ![s].labels = labels]
  /\ UNCHANGED <<added, keyVars, creating, lastMaterial>>

DeleteSecret(s) ==
  /\ s \in DOMAIN secrets
  /\ secrets' = Without(secrets, s)
  /\ added' = {a \in added : a.secret # s}
  /\ UNCHANGED <<keyVars, creating, lastMaterial>>

AddSecretVersion(s, payload) ==
  /\ s \in DOMAIN secrets /\ Len(secrets[s].versions) < MaxVersions
  /\ secrets' = [secrets EXCEPT ![s].versions = Append(@, [payload |-> payload, state |-> "ENABLED"])]
  /\ added' = added \cup {[secret |-> s, number |-> Len(secrets[s].versions) + 1,
                           payload |-> payload, destroyed |-> FALSE]}
  /\ UNCHANGED <<keyVars, creating, lastMaterial>>

Destroyed(entry, s, n) ==
  IF entry.secret = s /\ entry.number = n THEN [entry EXCEPT !.destroyed = TRUE] ELSE entry

\* Any state follows any other; a destroyed version has lost its payload.
NewState(v, state) ==
  [payload |-> IF state = "DESTROYED" THEN NoPayload ELSE v.payload, state |-> state]

SetSecretVersionState(s, n, state) ==
  /\ s \in DOMAIN secrets /\ n \in DOMAIN secrets[s].versions
  /\ secrets' = [secrets EXCEPT ![s].versions[n] = NewState(@, state)]
  /\ added' = IF state = "DESTROYED" THEN {Destroyed(a, s, n) : a \in added} ELSE added
  /\ UNCHANGED <<keyVars, creating, lastMaterial>>

\* What GetSecretVersion and AccessSecretVersion find: 0 asks for the newest
\* enabled version.  NoVersion stands for NotFound.
NoVersion == [payload |-> Nothing, state |-> "NONE"]
SecretVersion(s, n) ==
  LET versions == secrets[s].versions
      enabled  == {i \in DOMAIN versions : versions[i].state = "ENABLED"}
      number   == IF n = 0 /\ enabled # {} THEN CHOOSE i \in enabled : \A j \in enabled : j <= i ELSE n
  IN IF s \in DOMAIN secrets /\ number \in DOMAIN versions THEN versions[number] ELSE NoVersion

\* A version that is not enabled is not handed out.
AccessSecretVersion(s, n) ==
  IF SecretVersion(s, n).state = "ENABLED" THEN SecretVersion(s, n).payload ELSE Nothing

-----------------------------------------------------------------------------
(* Key rings and keys.                                                      *)

LookForKeyRing(c, r) ==
  /\ r \notin rings
  /\ Wait(c, [what |-> "ring", name |-> r])
  /\ UNCHANGED <<secretVars, keyVars, lastMaterial>>

CreateKMSKeyRing(c) ==
  /\ Pending(c, "ring")
  /\ rings' = rings \cup {creating[c].name}
  /\ Answer(c)
  /\ UNCHANGED <<secretVars, keys, issued, lastMaterial>>

\* The handler looks, and generates the material of the first version, unless
\* the request says to skip it.
LookForCryptoKey(c, k, algorithm, skip) ==
  /\ k \notin DOMAIN keys
  /\ IF skip THEN UNCHANGED lastMaterial
     ELSE lastMaterial < MaxMaterials /\ lastMaterial' = lastMaterial + 1
  /\ Wait(c, [what |-> "key", name |-> k,
              key |-> [algorithm |-> algorithm,
                       primary   |-> IF skip THEN 0 ELSE 1,
                       versions  |-> IF skip THEN <<>>
                                     ELSE <<[algorithm |-> algorithm, material |-> lastMaterial + 1]>>]])
  /\ UNCHANGED <<secretVars, keyVars>>

\* Seeded fault: the Store trusts the handler's look.
ReplaceCryptoKey(c) ==
  /\ Pending(c, "key") /\ creating[c].name[1] \in rings
  /\ keys' = Bind(keys, creating[c].name, creating[c].key)
  /\ Answer(c)
  /\ UNCHANGED <<secretVars, rings, issued, lastMaterial>>

\* Seeded fault: the key's ring is not looked for.
CreateWithoutRing(c) ==
  /\ Pending(c, "key")
  /\ keys' = IF creating[c].name \in DOMAIN keys THEN keys
             ELSE Bind(keys, creating[c].name, creating[c].key)
  /\ Answer(c)
  /\ UNCHANGED <<secretVars, rings, issued, lastMaterial>>

\* The Store returns a key that exists by now as it is.
CreateKMSCryptoKey(c) ==
  /\ Pending(c, "key") /\ creating[c].name[1] \in rings
  /\ keys' = IF creating[c].name \in DOMAIN keys THEN keys
             ELSE Bind(keys, creating[c].name, creating[c].key)
  /\ Answer(c)
  /\ UNCHANGED <<secretVars, rings, issued, lastMaterial>>

\* CreateCryptoKeyVersion reads the key's algorithm, or takes the request's.
LookForAlgorithm(c, k, algorithm) ==
  /\ k \in DOMAIN keys /\ lastMaterial < MaxMaterials
  /\ lastMaterial' = lastMaterial + 1
  /\ Wait(c, [what |-> "version", name |-> k,
              version |-> [algorithm |-> algorithm, material |-> lastMaterial + 1]])
  /\ UNCHANGED <<secretVars, keyVars>>

\* The first version becomes primary and stays it.
PrimaryAfter(key) == IF key.primary = 0 THEN Len(key.versions) + 1 ELSE key.primary

AddKMSKeyVersion(c) ==
  LET k == creating[c].name IN
  /\ Pending(c, "version") /\ k \in DOMAIN keys /\ Len(keys[k].versions) < MaxVersions
  /\ keys' = [keys EXCEPT ![k] = [algorithm |-> @.algorithm,
                                  primary   |-> PrimaryAfter(@),
                                  versions  |-> Append(@.versions, creating[c].version)]]
  /\ Answer(c)
  /\ UNCHANGED <<secretVars, rings, issued, lastMaterial>>

\* NotFound: the ring of a new key, or the key of a new version, is missing.
CreateFails(c) ==
  /\ \/ Pending(c, "key") /\ creating[c].name[1] \notin rings
     \/ Pending(c, "version") /\ creating[c].name \notin DOMAIN keys
  /\ Answer(c)
  /\ UNCHANGED <<secretVars, keyVars, lastMaterial>>

\* KMSKeyVersion: 0 asks for the primary version.  NoMaterial stands for
\* an answer of NotFound.
NoMaterial == 0
KMSKeyVersion(k, n) ==
  LET number == IF n = 0 THEN keys[k].primary ELSE n
  IN IF k \in DOMAIN keys /\ number \in DOMAIN keys[k].versions
     THEN keys[k].versions[number] ELSE [algorithm |-> "symmetric", material |-> NoMaterial]

\* Encrypt uses the primary version; the client decrypts naming the key only.
Encrypt(k) ==
  /\ k \in DOMAIN keys
  /\ KMSKeyVersion(k, 0).material # NoMaterial
  /\ KMSKeyVersion(k, 0).algorithm = "symmetric"
  /\ issued' = issued \cup {[key |-> k, version |-> 0, material |-> KMSKeyVersion(k, 0).material]}
  /\ UNCHANGED <<secretVars, rings, keys, creating, lastMaterial>>

\* AsymmetricSign names a version, and GetPublicKey later names the same one.
AsymmetricSign(k, n) ==
  /\ k \in DOMAIN keys
  /\ KMSKeyVersion(k, n).material # NoMaterial
  /\ KMSKeyVersion(k, n).algorithm # "symmetric"
  /\ issued' = issued \cup {[key |-> k, version |-> n, material |-> KMSKeyVersion(k, n).material]}
  /\ UNCHANGED <<secretVars, rings, keys, creating, lastMaterial>>

\* Whether a later request with the key, or with the version, succeeds:
\* authenticated decryption accepts the material that encrypted, and a public
\* key the signatures of its private key.
Decrypt(k, material) == KMSKeyVersion(k, 0).material = material
GetPublicKey(k, n, material) == KMSKeyVersion(k, n).material = material

-----------------------------------------------------------------------------
\* Reset drops everything; ResetWorkloadData keeps secrets, rings and keys.
Reset ==
  /\ secrets' = Empty /\ rings' = {} /\ keys' = Empty
  /\ added' = {} /\ issued' = {}
  /\ UNCHANGED <<creating, lastMaterial>>

secretManager ==
  \/ \E c \in Clients, s \in Secrets, labels \in Labels : LookForSecret(c, s, labels)
  \/ \E c \in Clients : CreateSecret(c)
  \/ \E s \in Secrets : \/ DeleteSecret(s)
                        \/ \E labels \in Labels : UpdateSecretLabels(s, labels)
                        \/ \E payload \in Payloads : AddSecretVersion(s, payload)
                        \/ \E n \in 1..MaxVersions, state \in {"ENABLED", "DISABLED", "DESTROYED"} :
                             SetSecretVersionState(s, n, state)

kms ==
  \/ \E c \in Clients :
       \/ \E r \in Rings : LookForKeyRing(c, r)
       \/ \E k \in Keys, a \in Algorithms : \/ \E skip \in BOOLEAN : LookForCryptoKey(c, k, a, skip)
                                            \/ LookForAlgorithm(c, k, a)
       \/ CreateKMSKeyRing(c) \/ CreateKMSCryptoKey(c) \/ AddKMSKeyVersion(c) \/ CreateFails(c)
  \/ \E k \in Keys : Encrypt(k) \/ \E n \in 1..MaxVersions : AsymmetricSign(k, n)

Next == secretManager \/ kms \/ Reset

Spec == Init /\ [][Next]_vars

-----------------------------------------------------------------------------
(* Properties.                                                              *)

\* Keys have their type: a ring, and a primary version as soon as they have
\* any version.
TypeOK ==
  /\ DOMAIN secrets \subseteq Secrets /\ rings \subseteq Rings /\ DOMAIN keys \subseteq Keys
  /\ \A s \in DOMAIN secrets : Len(secrets[s].versions) <= MaxVersions
  /\ \A k \in DOMAIN keys :
       /\ k[1] \in rings
       /\ keys[k].primary \in 0..Len(keys[k].versions)
       /\ keys[k].primary = 0 => keys[k].versions = <<>>

\* A ciphertext that Encrypt returned can be decrypted by naming its key, and
\* a signature verified with its version, until everything is reset: no
\* rotation and no racing creation takes the material away.
MaterialKept ==
  \A i \in issued : IF i.version = 0 THEN Decrypt(i.key, i.material)
                    ELSE GetPublicKey(i.key, i.version, i.material)

\* A version that AddSecretVersion acknowledged keeps its number and payload
\* until the secret is deleted, whatever other clients create, add, disable or
\* enable; only destroying it takes the payload, and then for good.  The newest
\* enabled version answers with the payload it was added with as well.
PayloadsKept ==
  /\ \A a \in added :
       SecretVersion(a.secret, a.number).payload = IF a.destroyed THEN NoPayload ELSE a.payload
  /\ \A s \in DOMAIN secrets :
       AccessSecretVersion(s, 0) \in {Nothing, NoPayload} \cup {a.payload : a \in {b \in added : b.secret = s}}
=============================================================================
