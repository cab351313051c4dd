--------------------------- MODULE KeyFingerprint ---------------------------
(***************************************************************************)
(* The claim of a Redis namespace by one TOKEN_ENCRYPTION_KEY               *)
(* (src/src/auth/encryptionKeyFingerprint.ts), by the instances of a fleet  *)
(* that start, crash and restart with the keys their environments give      *)
(* them, over the encrypted credentials token:* and apitoken:*.             *)
(*                                                                          *)
(* A key stands for its fingerprint.  A stored credential is abstracted to  *)
(* the key it is encrypted under; AES-GCM decryption succeeds exactly with  *)
(* that key.  Each Redis command is a step, the claim script is one.        *)
(***************************************************************************)
EXTENDS FiniteSets

CONSTANTS
    Instance,   \* the processes that share the Redis namespace
    Key,        \* values of TOKEN_ENCRYPTION_KEY
    OAuth,      \* the keys token:<account>
    ApiToken,   \* the keys apitoken:<account>
    Corrupt,    \* a blob no key decrypts
    None        \* no such Redis key

ASSUME KeyAssumption == None \notin Key /\ Corrupt \notin Key

VARIABLES
    marker,  \* token_encryption_key_fingerprint:v1
    blob,    \* per credential: the key it is encrypted under
    pc,      \* per instance: how far its start has come
    key,     \* per instance: the key in its environment
    due      \* per instance: what the SCAN in progress still has to return

vars == <<marker, blob, pc, key, due>>

Credential == OAuth \cup ApiToken
Phase == {"down", "check", "scanOAuth", "scanApi", "claim", "serving"}

TypeOK ==
    /\ marker \in Key \cup {None}
    /\ blob \in [Credential -> Key \cup {Corrupt, None}]
    /\ pc \in [Instance -> Phase]
    /\ key \in [Instance -> Key \cup {None}]
    /\ due \in [Instance -> SUBSET Credential]
    /\ \A i \in Instance : pc[i] # "down" => key[i] \in Key

\* A namespace from before the marker: anything may be stored in it.
Init ==
    /\ marker = None
    /\ blob \in [Credential -> Key \cup {Corrupt, None}]
    /\ pc = [i \in Instance |-> "down"]
    /\ key = [i \in Instance |-> None]
    /\ due = [i \in Instance |-> {}]

----------------------------------------------------------------------------
(* The start of an instance: main awaits assertEncryptionKeyFingerprint     *)
(* before it creates the app and listens.                                   *)

\* Credentials Redis holds.  SCAN returns each one of its pattern that exists
\* from its first call to its last; others it may return or miss.
Stored == {c \in Credential : blob[c] # None}
Pattern(p) == IF p = "scanOAuth" THEN OAuth ELSE ApiToken
Readable(c, i) == blob[c] \in {None, key[i]}

Goto(i, p) == pc' = [pc EXCEPT ![i] = p]

\* Mutant: a refusal drops the key and is ignored by main.
DownIgnored(i) ==
    /\ key' = [key EXCEPT ![i] = None]
    /\ UNCHANGED <<pc, due>>

\* The process leaves: refused, crashed or stopped.
Down(i) ==
    /\ pc' = [pc EXCEPT ![i] = "down"]
    /\ key' = [key EXCEPT ![i] = None]
    /\ due' = [due EXCEPT ![i] = {}]

Start(i, k) ==
    /\ pc[i] = "down"
    /\ Goto(i, "check")
    /\ key' = [key EXCEPT ![i] = k]
    /\ UNCHANGED <<marker, blob, due>>

BeginScan(i, p) ==
    /\ Goto(i, p)
    /\ due' = [due EXCEPT ![i] = Pattern(p) \cap Stored]

\* GET of the marker.
Check(i) ==
    /\ pc[i] = "check"
    /\ IF marker = None
       THEN BeginScan(i, "scanOAuth")
       ELSE Goto(i, "claim") /\ UNCHANGED due
    /\ UNCHANGED <<marker, blob, key>>

Scanning(i) == pc[i] \in {"scanOAuth", "scanApi"}

\* Mutant: one success proves the key.
ScanFirstOnly(i, c) ==
    /\ Scanning(i)
    /\ c \in Pattern(pc[i]) \cap Stored
    /\ IF Readable(c, i)
       THEN due' = [due EXCEPT ![i] = {}] /\ UNCHANGED <<pc, key>>
       ELSE Down(i)
    /\ UNCHANGED <<marker, blob>>

\* GET and decryption of a key that SCAN returned and that still exists.
ScanOne(i, c) ==
    /\ Scanning(i)
    /\ c \in Pattern(pc[i]) \cap Stored
    /\ IF Readable(c, i)
       THEN due' = [due EXCEPT ![i] = @ \ {c}] /\ UNCHANGED <<pc, key>>
       ELSE Down(i)
    /\ UNCHANGED <<marker, blob>>

\* Cursor 0: the next pattern, or the claim.
ScanEnds(i) ==
    /\ Scanning(i)
    /\ due[i] = {}
    /\ IF pc[i] = "scanOAuth"
       THEN BeginScan(i, "scanApi")
       ELSE Goto(i, "claim") /\ UNCHANGED due
    /\ UNCHANGED <<marker, blob, key>>

\* Mutant: a SET instead of the script's compare.
ClaimOverwrites(i) ==
    /\ pc[i] = "claim"
    /\ marker' = key[i]
    /\ Goto(i, "serving")
    /\ UNCHANGED <<blob, key, due>>

\* CLAIM_FINGERPRINT_SCRIPT: initialized, matched, or mismatch.
Claim(i) ==
    /\ pc[i] = "claim"
    /\ IF marker \in {None, key[i]}
       THEN marker' = key[i] /\ Goto(i, "serving") /\ UNCHANGED <<key, due>>
       ELSE Down(i) /\ UNCHANGED marker
    /\ UNCHANGED blob

----------------------------------------------------------------------------
(* Serving: logins and bindings write, revocations and expiry remove.       *)

Put(i, c) ==
    /\ pc[i] = "serving"
    /\ blob' = [blob EXCEPT ![c] = key[i]]
    /\ UNCHANGED <<marker, pc, key, due>>

\* A running SCAN need not return c any more, even if it is stored again.
Vanish(c) ==
    /\ c \in Stored
    /\ blob' = [blob EXCEPT ![c] = None]
    /\ due' = [i \in Instance |-> due[i] \ {c}]
    /\ UNCHANGED <<marker, pc, key>>

Delete(i, c) == pc[i] = "serving" /\ Vanish(c)

\* token:* expires; apitoken:* has no TTL.
Lapse(c) == c \in OAuth /\ Vanish(c)

Stop(i) ==
    /\ pc[i] # "down"
    /\ Down(i)
    /\ UNCHANGED <<marker, blob>>

----------------------------------------------------------------------------
(* The operator's stopped-fleet key rotation (docs/deployment/secrets.md).  *)
(* The document asks for the purge before the marker is deleted; here the   *)
(* operator may forget it.                                                  *)

FleetStopped == \A i \in Instance : pc[i] = "down"

Purge(c) == FleetStopped /\ Vanish(c)

DeleteMarker ==
    /\ FleetStopped
    /\ marker # None
    /\ marker' = None
    /\ UNCHANGED <<blob, pc, key, due>>

----------------------------------------------------------------------------
Startup(i) ==
    \/ \E k \in Key : Start(i, k)
    \/ Check(i)
    \/ \E c \in Credential : ScanOne(i, c)
    \/ ScanEnds(i)
    \/ Claim(i)

Next ==
    \/ \E i \in Instance :
          \/ Startup(i)
          \/ Stop(i)
          \/ \E c \in Credential : Put(i, c) \/ Delete(i, c)
    \/ \E c \in Credential : Lapse(c) \/ Purge(c)
    \/ DeleteMarker

Spec == Init /\ [][Next]_vars

----------------------------------------------------------------------------
(* Properties.                                                              *)

Serving(i) == pc[i] = "serving"

\* Instances that serve from one Redis at the same time hold the same key, even
\* if several found no marker, scanned the same namespace and raced to claim it.
FleetAgrees ==
    \A i, j \in Instance : Serving(i) /\ Serving(j) => key[i] = key[j]

\* A serving instance can decrypt every stored credential: what was there
\* before the marker, and whatever any instance has written since, through
\* crashes, restarts under other keys and rotations whose purge was forgotten.
AllReadable ==
    \A i \in Instance, c \in Credential : Serving(i) => Readable(c, i)

----------------------------------------------------------------------------
(* Why they hold: an inductive strengthening.                               *)

\* The marker names the key of every credential, and of every instance that
\* serves.
MarkerTrue ==
    /\ marker # None => \A c \in Credential : blob[c] \in {None, marker}
    /\ \A i \in Instance : Serving(i) => marker = key[i]

\* While there is no marker, nobody writes credentials, so what a scan has
\* passed stays readable until the claim.
ScanHolds ==
    marker = None =>
        \A i \in Instance :
            /\ pc[i] = "scanOAuth" =>
                  \A c \in OAuth \ due[i] : Readable(c, i)
            /\ pc[i] = "scanApi" =>
                  \A c \in OAuth \cup (ApiToken \ due[i]) : Readable(c, i)
            /\ pc[i] = "claim" =>
                  \A c \in Credential : Readable(c, i)

IInv == TypeOK /\ MarkerTrue /\ ScanHolds
=============================================================================
