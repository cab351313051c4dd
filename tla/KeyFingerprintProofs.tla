------------------------ MODULE KeyFingerprintProofs ------------------------
(***************************************************************************)
(* The claims of KeyFingerprint for any fleet, keys and credentials.        *)
(***************************************************************************)
EXTENDS KeyFingerprint, TLAPS

\* Without a marker and an instance nothing is claimed.
LEMMA InvariantInit == Init => IInv
  BY KeyAssumption
  DEF Init, IInv, TypeOK, MarkerTrue, ScanHolds, Phase, Serving

\* Every step keeps the marker true and the scans valid.
LEMMA InvariantNext == IInv /\ [Next]_vars => IInv'
  <1> SUFFICES ASSUME IInv, [Next]_vars PROVE IInv'
    OBVIOUS
  <1> USE KeyAssumption DEF IInv, TypeOK, MarkerTrue, ScanHolds, Serving,
        Readable, Phase
  <1>1. ASSUME NEW i \in Instance, NEW k \in Key, Start(i, k)
        PROVE  IInv'
    BY <1>1 DEF Start, Goto
  <1>2. ASSUME NEW i \in Instance, Check(i)
        PROVE  IInv'
    BY <1>2 DEF Check, BeginScan, Goto, Pattern, Stored, Credential
  <1>3. ASSUME NEW i \in Instance, NEW c \in Credential, ScanOne(i, c)
        PROVE  IInv'
    BY <1>3 DEF ScanOne, Scanning, Down, Pattern, Stored, Credential
  <1>4. ASSUME NEW i \in Instance, ScanEnds(i)
        PROVE  IInv'
    BY <1>4 DEF ScanEnds, Scanning, BeginScan, Goto, Pattern, Stored, Credential
  <1>5. ASSUME NEW i \in Instance, Claim(i)
        PROVE  IInv'
    BY <1>5 DEF Claim, Goto, Down
  <1>6. ASSUME NEW i \in Instance, Stop(i)
        PROVE  IInv'
    BY <1>6 DEF Stop, Down
  <1>7. ASSUME NEW i \in Instance, NEW c \in Credential, Put(i, c)
        PROVE  IInv'
    BY <1>7 DEF Put
  <1>8. ASSUME NEW c \in Credential, Vanish(c)
        PROVE  IInv'
    BY <1>8 DEF Vanish, Credential
  <1>9. ASSUME DeleteMarker
        PROVE  IInv'
    BY <1>9 DEF DeleteMarker, FleetStopped
  <1>10. CASE UNCHANGED vars
    BY <1>10 DEF vars
  <1> QED
    BY <1>1, <1>2, <1>3, <1>4, <1>5, <1>6, <1>7, <1>8, <1>9, <1>10
    DEF Next, Startup, Delete, Lapse, Purge

\* A namespace and its fleet are always consistent: the marker names the key of
\* every credential and of every serving instance, and a scan without a marker
\* is not overtaken by a write.
THEOREM Consistent == Spec => []IInv
  <1>1. Init => IInv
    BY InvariantInit
  <1>2. IInv /\ [Next]_vars => IInv'
    BY InvariantNext
  <1> QED BY <1>1, <1>2, PTL DEF Spec

\* Stored credentials, the marker and what an instance remembers of its scan
\* keep their types, with any number of instances and keys.
THEOREM Typed == Spec => []TypeOK
  <1>1. IInv => TypeOK
    BY DEF IInv
  <1> QED BY <1>1, Consistent, PTL

\* Instances that serve at the same time hold the same key.
THEOREM OneKey == Spec => []FleetAgrees
  <1>1. IInv => FleetAgrees
    BY DEF IInv, MarkerTrue, FleetAgrees
  <1> QED BY <1>1, Consistent, PTL

\* A serving instance can decrypt every stored credential.
THEOREM NothingUnreadable == Spec => []AllReadable
  <1>1. IInv => AllReadable
    BY KeyAssumption DEF IInv, TypeOK, MarkerTrue, AllReadable, Readable,
       Serving
  <1> QED BY <1>1, Consistent, PTL
=============================================================================
