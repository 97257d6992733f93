------------------------- MODULE RegistrationProofs -------------------------
(***************************************************************************)
(* Proofs about Registration.  What the two files and the memory hold is   *)
(* followed through the steps of WriteCertificate; a renewal writes the    *)
(* key that is there already, which is why it cannot be torn apart.        *)
(***************************************************************************)
EXTENDS Registration, TLAPS

Writing == {"writeKey", "restore"}

(* The answered certificate belongs to the key of the request, and is in   *)
(* its file while the key is written.                                      *)
AnswerInv ==
    /\ pc \in {"writeCert", "writeKey", "restore"} => cert = [kind |-> "device", key |-> key]
    /\ pc \in Writing => certFile = cert
    /\ ~up => pc = "idle"

(* With a device certificate, requests are made with the key there is, and *)
(* the key's file holds no other one.                                      *)
KeyInv ==
    group.cert.kind = "device" =>
        /\ pc # "idle" => key = group.key
        /\ keyFile \in {Garbled, group.key}

(* Nothing was cut short: the files hold what is in memory.                *)
WholeInv ==
    ~cut =>
        /\ group.cert.key = group.key
        /\ keyFile = group.key
        /\ pc \notin Writing => certFile = group.cert

(* No first certificate was cut short.                                     *)
FirstInv ==
    ~cutFirst =>
        /\ group.cert.kind = "register" => ~cut
        /\ group.cert.kind = "device" =>
              /\ group.cert.key = group.key
              /\ certFile # Garbled => certFile.kind = "device" /\ certFile.key = group.key

RegInv == TypeOK /\ AnswerInv /\ KeyInv /\ WholeInv /\ FirstInv /\ RegisteredHasCert

LEMMA CertFields ==
    ASSUME NEW c \in Certs
    PROVE  c.kind \in {"register", "device"} /\ c.key \in Keys
BY DEF Certs

LEMMA InitRegInv == Init => RegInv
<1> SUFFICES ASSUME Init PROVE RegInv
    OBVIOUS
<1> USE RegistrationAssumption DEF Init, First, Keys, Certs
<1>1. 0 \in Keys /\ 0 \in 0..MaxFaults
    OBVIOUS
<1>2. First \in Certs
    BY <1>1
<1>3. TypeOK
  <2> HIDE DEF First, Keys, Certs
  <2> QED
      BY <1>1, <1>2 DEF TypeOK
<1>4. AnswerInv /\ KeyInv /\ WholeInv /\ FirstInv /\ RegisteredHasCert
    BY DEF AnswerInv, KeyInv, WholeInv, FirstInv, RegisteredHasCert, Writing
<1> QED
    BY <1>3, <1>4 DEF RegInv

(* A fault is counted below its bound.                                     *)
LEMMA FaultCounted == ASSUME faults \in 0..MaxFaults, Fault PROVE faults' \in 0..MaxFaults
BY RegistrationAssumption DEF Fault

LEMMA TypeStep == TypeOK /\ [Next]_vars => TypeOK'
<1> SUFFICES ASSUME TypeOK, [Next]_vars PROVE TypeOK'
    OBVIOUS
<1> USE FaultCounted DEF TypeOK, Returned, CutShort, IsRegisterCert,
        files, request, process, configuration, history
<1>1. CASE BeginAttempt
    BY <1>1 DEF BeginAttempt, renewCertificate, CreateDeviceCerts, Renew
<1>2. CASE Answered
    BY <1>2 DEF Answered, Certs
<1>3. CASE WriteCert
    BY <1>3 DEF WriteCert
<1>4. CASE WriteCertFails
    BY <1>4 DEF WriteCertFails
<1>5. CASE WriteKey
    BY <1>5 DEF WriteKey
<1>6. CASE WriteKeyFails
    BY <1>6 DEF WriteKeyFails
<1>7. CASE RestoreCert
    BY <1>7 DEF RestoreCert
<1>8. CASE RestoreFails
    BY <1>8 DEF RestoreFails
<1>9. CASE Refused
    BY <1>9 DEF Refused
<1>10. CASE StopRetrying
    BY <1>10 DEF StopRetrying
<1>11. CASE Configure
    BY <1>11 DEF Configure
<1>12. CASE Deregister
    BY <1>12 DEF Deregister
<1>13. CASE Crash
    BY <1>13 DEF Crash
<1>14. CASE NewRegistration
    BY <1>14 DEF NewRegistration
<1>15. CASE UNCHANGED vars
    BY <1>15 DEF vars
<1> QED
    BY <1>1, <1>2, <1>3, <1>4, <1>5, <1>6, <1>7, <1>8, <1>9, <1>10, <1>11, <1>12, <1>13,
       <1>14, <1>15 DEF Next, Attempt

LEMMA RegInvStep == RegInv /\ [Next]_vars => RegInv'
<1> SUFFICES ASSUME RegInv, [Next]_vars PROVE RegInv'
    OBVIOUS
<1>0. TypeOK'
    BY TypeStep DEF RegInv
<1> DEFINE Parts == AnswerInv /\ KeyInv /\ WholeInv /\ FirstInv /\ RegisteredHasCert
<1>p. TypeOK /\ Parts
    BY DEF RegInv
<1>a. Parts'
  <2> USE <1>p, RegistrationAssumption, CertFields
          DEF TypeOK, AnswerInv, KeyInv, WholeInv, FirstInv, RegisteredHasCert, Writing,
              Fault, Returned, CutShort, IsRegisterCert, files, request, process,
              configuration, history
  <2>1. CASE BeginAttempt
      BY <2>1 DEF BeginAttempt, renewCertificate, CreateDeviceCerts, Renew
  <2>2. CASE Answered
      BY <2>2 DEF Answered
  <2>3. CASE WriteCert
      BY <2>3 DEF WriteCert
  <2>4. CASE WriteCertFails
      BY <2>4 DEF WriteCertFails
  <2>5. CASE WriteKey
      BY <2>5 DEF WriteKey
  <2>6. CASE WriteKeyFails
      BY <2>6 DEF WriteKeyFails
  <2>7. CASE RestoreCert
      BY <2>7 DEF RestoreCert
  <2>8. CASE RestoreFails
      BY <2>8 DEF RestoreFails
  <2>9. CASE Refused
      BY <2>9 DEF Refused
  <2>10. CASE StopRetrying
      BY <2>10 DEF StopRetrying
  <2>11. CASE Configure
      BY <2>11 DEF Configure
  <2>12. CASE Deregister
      BY <2>12 DEF Deregister
  <2>13. CASE Crash
      BY <2>13 DEF Crash
  <2>14. CASE NewRegistration
      BY <2>14 DEF NewRegistration
  <2>15. CASE UNCHANGED vars
      BY <2>15 DEF vars
  <2> HIDE DEF Parts
  <2> QED
      BY <2>1, <2>2, <2>3, <2>4, <2>5, <2>6, <2>7, <2>8, <2>9, <2>10, <2>11, <2>12, <2>13,
         <2>14, <2>15 DEF Next, Attempt
<1> QED
    BY <1>0, <1>a DEF RegInv

LEMMA RegInvAlways == Spec => []RegInv
BY InitRegInv, RegInvStep, PTL DEF Spec

(* Every step of an attempt, of a failed write, of a crash and of a restart *)
(* (registration.go, certs.go) keeps the variables in their types.         *)
THEOREM TypeCorrect == Spec => []TypeOK
<1>1. RegInv => TypeOK
    BY DEF RegInv
<1> QED
    BY <1>1, RegInvAlways, PTL

(* Between attempts both files hold what ClientCert.certGroup holds, and   *)
(* that is a certificate and its key, unless WriteCertificate was cut      *)
(* short: for any number of keys, attempts, failures and restarts.         *)
THEOREM FilesAgree == Spec => []FilesHoldGroup
<1>1. RegInv => FilesHoldGroup
    BY DEF RegInv, WholeInv, Writing, FilesHoldGroup
<1> QED
    BY <1>1, RegInvAlways, PTL

(* A renewal (ClientCert.Renew and WriteCertificate) that is cut short     *)
(* anywhere leaves a certificate and its key in the files.                 *)
THEOREM RenewalSafe == Spec => []RenewalIsSafe
<1>1. RegInv => RenewalIsSafe
    BY DEF RegInv, KeyInv, FirstInv, RenewalIsSafe
<1> QED
    BY <1>1, RegInvAlways, PTL

(* registered is set only with a device certificate that belongs to the    *)
(* key in memory.                                                          *)
THEOREM RegisteredCertified == Spec => []RegisteredHasCert
<1>1. RegInv => RegisteredHasCert
    BY DEF RegInv
<1> QED
    BY <1>1, RegInvAlways, PTL

(* Once there is a device certificate no step replaces the key: a renewal  *)
(* asks with the old one, and a restart reads back no other one.           *)
THEOREM KeyNeverReplaced == Spec => KeyKept
<1> DEFINE Kept == group.cert.kind = "device" => group'.key = group.key
<1>1. RegInv /\ [Next]_vars => [Kept]_vars
  <2> SUFFICES ASSUME RegInv, Next PROVE Kept
      OBVIOUS
  <2>1. CASE WriteKey
      BY <2>1 DEF WriteKey, RegInv, KeyInv
  <2>2. CASE NewRegistration
      BY <2>2 DEF NewRegistration, RegInv, KeyInv
  <2>3. CASE UNCHANGED group
      BY <2>3
  <2>4. WriteKey \/ NewRegistration \/ UNCHANGED group
      BY DEF Next, Attempt, BeginAttempt, Answered, WriteCert, WriteCertFails, WriteKeyFails,
             RestoreCert, RestoreFails, Refused, StopRetrying, Configure, Deregister, Crash
  <2> QED
      BY <2>1, <2>2, <2>3, <2>4
<1> QED
    BY <1>1, RegInvAlways, PTL DEF Spec, KeyKept
====
