---------------------------- MODULE Registration ----------------------------
(***************************************************************************)
(* Registration of the device with the operator                            *)
(* (internal/registration/registration.go) and its client certificate      *)
(* (internal/registration/certs.go).  The device starts with a             *)
(* registration certificate; a registration answers its certificate        *)
(* request with a device certificate, which is written to two files, one   *)
(* after the other.  A process may die between any two steps.              *)
(***************************************************************************)
EXTENDS Naturals

CONSTANTS
    Garbled,        \* a file that cannot be parsed
    MaxKeys,        \* bound: keys there are besides the first, key 0
    MaxFaults       \* bound: failed writes and crashes

Keys == 0..MaxKeys
Certs == [kind : {"register", "device"}, key : Keys]
ASSUME RegistrationAssumption ==
    /\ MaxKeys \in Nat /\ MaxFaults \in Nat
    /\ Garbled \notin Keys /\ Garbled \notin Certs

VARIABLES
    certFile, keyFile,  \* the two files
    group,              \* ClientCert.certGroup: what was read or written last
    pc,                 \* where registerDeviceOnce is
    key, cert,          \* the key of the request; the answered certificate
    loop,               \* RegisterDevice: "first", "retry" or "ended"
    initial,            \* Manager.IsInitialConfig
    configFile,         \* a configuration is stored
    registered,
    up,
    cut,                \* WriteCertificate was cut short: a write failed or a crash
    cutFirst,           \* and it was the first one, with a new key
    faults

files == <<certFile, keyFile>>
request == <<key, cert>>
configuration == <<initial, configFile>>
process == <<loop, registered, up>>
history == <<cut, cutFirst>>
vars == <<files, group, pc, request, process, configuration, history, faults>>

First == [kind |-> "register", key |-> 0]

Init ==
    /\ certFile = First /\ keyFile = 0
    /\ group = [cert |-> First, key |-> 0]
    /\ pc = "idle" /\ key = 0 /\ cert = First
    /\ loop = "first" /\ initial = TRUE /\ configFile = FALSE
    /\ registered = FALSE /\ up = TRUE
    /\ cut = FALSE /\ cutFirst = FALSE /\ faults = 0

Fault == faults < MaxFaults /\ faults' = faults + 1
CutShort == cut' = TRUE /\ cutFirst' = (cutFirst \/ group.cert.kind = "register")

-----------------------------------------------------------------------------
(* renewCertificate: the key of the next certificate request.              *)

IsRegisterCert == group.cert.kind = "register"

(* GetNewKey: a key that is in none of the files and not in memory.        *)
InUse == {keyFile, group.key, group.cert.key}
         \cup (IF certFile = Garbled THEN {} ELSE {certFile.key})
CreateDeviceCerts == key' \in Keys \ InUse

Renew == key' = group.key

(* MUTANT of renewCertificate: a new key for every certificate.            *)
renewWithNewKey == CreateDeviceCerts

renewCertificate == IF IsRegisterCert THEN CreateDeviceCerts ELSE Renew

-----------------------------------------------------------------------------
(* registerDeviceOnce, first by RegisterDevice and then by the loop.       *)

(* The request is made; hardware information that cannot be had, or a key, *)
(* is the end of the attempt (Refused).                                    *)
BeginAttempt ==
    /\ up /\ pc = "idle"
    /\ loop = "first" \/ (loop = "retry" /\ initial)
    /\ renewCertificate
    /\ pc' = "send"
    /\ UNCHANGED <<files, group, cert, process, configuration, history, faults>>

Returned == pc' = "idle" /\ loop' = "retry"

(* No answer in a second, a status of 300 or more, an answer that cannot   *)
(* be parsed or has no certificate, or one that cannot be imported.        *)
Refused ==
    /\ up /\ pc = "send"
    /\ Returned
    /\ UNCHANGED <<files, group, request, registered, up, configuration, history, faults>>

(* The operator signs the request; the certificate can be imported.        *)
Answered ==
    /\ up /\ pc = "send"
    /\ cert' = [kind |-> "device", key |-> key]
    /\ pc' = "writeCert"
    /\ UNCHANGED <<files, group, key, process, configuration, history, faults>>

(* WriteCertificate: the certificate is written first.                     *)
WriteCert ==
    /\ up /\ pc = "writeCert"
    /\ certFile' = cert
    /\ pc' = "writeKey"
    /\ UNCHANGED <<keyFile, group, request, process, configuration, history, faults>>

WriteCertFails ==
    /\ up /\ pc = "writeCert"
    /\ Fault
    /\ certFile' \in {certFile, Garbled}
    /\ CutShort
    /\ Returned
    /\ UNCHANGED <<keyFile, group, request, registered, up, configuration>>

(* MUTANT of WriteKey: certGroup is not replaced.                          *)
WriteKeyOnly ==
    /\ up /\ pc = "writeKey"
    /\ keyFile' = key
    /\ registered' = TRUE
    /\ Returned
    /\ UNCHANGED <<certFile, group, request, up, configuration, history, faults>>

(* Then the key; certGroup is replaced and the device is registered.       *)
WriteKey ==
    /\ up /\ pc = "writeKey"
    /\ keyFile' = key
    /\ group' = [cert |-> cert, key |-> key]
    /\ registered' = TRUE
    /\ Returned
    /\ UNCHANGED <<certFile, request, up, configuration, history, faults>>

WriteKeyFails ==
    /\ up /\ pc = "writeKey"
    /\ Fault
    /\ keyFile' \in {keyFile, Garbled}
    /\ cut' = (cut \/ keyFile' = Garbled)
    /\ cutFirst' = (cutFirst \/ (keyFile' = Garbled /\ IsRegisterCert))
    /\ pc' = "restore"
    /\ UNCHANGED <<certFile, group, request, process, configuration>>

(* MUTANT of RestoreCert: the new certificate stays.                       *)
RestoreNothing ==
    /\ up /\ pc = "restore"
    /\ Returned
    /\ UNCHANGED <<files, group, request, registered, up, configuration, history, faults>>

(* "Write the cert back because cannot write the new key"                  *)
RestoreCert ==
    /\ up /\ pc = "restore"
    /\ certFile' = group.cert
    /\ Returned
    /\ UNCHANGED <<keyFile, group, request, registered, up, configuration, history,
                   faults>>

RestoreFails ==
    /\ up /\ pc = "restore"
    /\ Fault
    /\ certFile' \in {certFile, Garbled}
    /\ CutShort
    /\ Returned
    /\ UNCHANGED <<keyFile, group, request, registered, up, configuration>>

(* MUTANT of StopRetrying: the loop ends although there is no              *)
(* configuration.                                                          *)
StopEarly ==
    /\ up /\ pc = "idle"
    /\ loop = "retry"
    /\ loop' = "ended"
    /\ UNCHANGED <<files, group, pc, request, registered, up, configuration, history, faults>>

(* registerDeviceWithRetries: with a configuration the loop ends.          *)
StopRetrying ==
    /\ up /\ pc = "idle"
    /\ loop = "retry" /\ ~initial
    /\ loop' = "ended"
    /\ UNCHANGED <<files, group, pc, request, registered, up, configuration, history,
                   faults>>

-----------------------------------------------------------------------------
(* The other goroutines and the process.                                   *)

(* A configuration is received and stored.                                 *)
Configure ==
    /\ up /\ initial
    /\ initial' = FALSE /\ configFile' = TRUE
    /\ UNCHANGED <<files, group, pc, request, process, history, faults>>

(* Deregister, from the goroutine of a disconnect event: the stored        *)
(* configuration is removed, and registered is cleared without the lock,   *)
(* whatever an attempt is doing.                                           *)
Deregister ==
    /\ up
    /\ configFile' = FALSE
    /\ registered' = FALSE
    /\ UNCHANGED <<files, group, pc, request, loop, initial, up, history, faults>>

(* The process ends, in an attempt or not.                                 *)
Crash ==
    /\ up
    /\ Fault
    /\ up' = FALSE
    /\ IF pc \in {"writeKey", "restore"} THEN CutShort ELSE UNCHANGED history
    /\ pc' = "idle"
    /\ UNCHANGED <<files, group, request, loop, registered, configuration>>

(* NewRegistration: NewClientCert reads the files, without a check that    *)
(* they belong together; main registers the device when it has no          *)
(* configuration.  A file that cannot be parsed is the end.                *)
NewRegistration ==
    /\ ~up
    /\ certFile # Garbled /\ keyFile # Garbled
    /\ up' = TRUE
    /\ group' = [cert |-> certFile, key |-> keyFile]
    /\ initial' = ~configFile
    /\ loop' = IF configFile THEN "ended" ELSE "first"
    /\ registered' = FALSE
    /\ UNCHANGED <<files, pc, request, configFile, history, faults>>

Attempt == \/ BeginAttempt \/ Answered \/ WriteCert \/ WriteCertFails \/ WriteKey
           \/ WriteKeyFails \/ RestoreCert \/ RestoreFails \/ Refused \/ StopRetrying

Next == Attempt \/ Configure \/ Deregister \/ Crash \/ NewRegistration

Spec == Init /\ [][Next]_vars

(* The loop goes on, and the operator can be reached again and again.      *)
FairSpec == Spec /\ WF_vars(Attempt) /\ SF_vars(Answered)

-----------------------------------------------------------------------------
TypeOK ==
    /\ certFile \in Certs \cup {Garbled} /\ keyFile \in Keys \cup {Garbled}
    /\ group \in [cert : Certs, key : Keys]
    /\ pc \in {"idle", "send", "writeCert", "writeKey", "restore"}
    /\ key \in Keys /\ cert \in Certs
    /\ loop \in {"first", "retry", "ended"}
    /\ initial \in BOOLEAN /\ configFile \in BOOLEAN /\ registered \in BOOLEAN
    /\ up \in BOOLEAN /\ cut \in BOOLEAN /\ cutFirst \in BOOLEAN
    /\ faults \in 0..MaxFaults

(* Between attempts the two files hold what the process uses, a            *)
(* certificate and its key, whatever failed in an attempt and was put back;*)
(* only a WriteCertificate that was cut short may leave something else.    *)
FilesHoldGroup ==
    pc = "idle" /\ ~cut =>
        certFile = group.cert /\ keyFile = group.key /\ group.cert.key = group.key

(* A renewal may be cut short at any point, by a crash too, and the files  *)
(* still hold a certificate and its key (or one that cannot be parsed):    *)
(* only the first certificate, which comes with a new key, is at risk.     *)
RenewalIsSafe ==
    /\ group.cert.kind = "device" /\ ~cutFirst
    /\ certFile # Garbled /\ keyFile # Garbled
    => certFile.key = keyFile

(* A registered device uses a device certificate that belongs to its key.  *)
RegisteredHasCert ==
    registered => group.cert.kind = "device" /\ group.cert.key = group.key

(* A device that has a device certificate keeps its key, through renewals, *)
(* failures and restarts.                                                  *)
KeyKept == [][group.cert.kind = "device" => group'.key = group.key]_vars

(* A device without a configuration is registered in the end, whatever     *)
(* attempts fail before.                                                   *)
Registers ==
    (up /\ initial) ~> (registered \/ ~up \/ ~initial)
====
