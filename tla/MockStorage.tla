---------------------------- MODULE MockStorage ----------------------------
(***************************************************************************)
(* The typed storage, stable memory and certified data of MockContext      *)
(* (src/src/mock.rs), with the part of the Watcher that observes them.     *)
(*                                                                         *)
(* A context is first built (MockContext::new and the with_* builders),    *)
(* then injected; canister code and the test then use the Context API on  *)
(* it.  Everything runs on one thread, so each call is one atomic step.   *)
(*                                                                         *)
(* storage maps a TypeId to Absent or to the Box it holds, a record of the *)
(* value and an allocation number; get_mut returns a &mut into that Box,  *)
(* and since the API takes &self the reference may outlive a later store  *)
(* or delete of the same type.  refs holds the references get_mut handed   *)
(* out since the context was created.                                    *)
(***************************************************************************)
EXTENDS Naturals, Sequences

CONSTANTS
    Types,        \* TypeIds of the types a canister stores
    Vals,         \* values other than T::default()
    Dflt,         \* T::default()
    Absent,       \* no entry in the storage BTreeMap
    NoData,       \* None
    Bytes,        \* byte values of certified-data payloads
    MaxCert,      \* 32, the certified-data limit
    MaxPayload,   \* longest payload a test passes (past MaxCert)
    StableArgs,   \* the value sequences a canister encodes to stable memory
    MaxBox        \* bound on the Boxes allocated in one context

ASSUME StorageAssumption ==
    /\ MaxCert \in Nat /\ MaxPayload \in Nat /\ MaxBox \in Nat
    /\ Bytes \subseteq Nat /\ 0 \in Bytes
    /\ Dflt \notin Vals /\ Absent \notin Vals \cup {Dflt}

Value == Vals \cup {Dflt}

Payloads == UNION {[1..k -> Bytes] : k \in 0..MaxPayload}

(* certified_data and certificate are Option<Vec<u8>>: None is no byte     *)
(* vector, neither a payload nor a 32-byte certificate.                   *)
ASSUME NoDataAssumption == NoData \notin Payloads \cup [1..MaxCert -> Bytes]

NoPanic == [site |-> "none", len |-> 0]

VARIABLES
    phase,         \* "build" until inject(), then "run"
    storage,       \* MockContext::storage
    nextBox,       \* allocation number of the next Box
    refs,          \* <<type, box>> of the &mut references get_mut returned
    modified,      \* Watcher::storage_modified
    flags,         \* the Watcher's called_* flags of these operations
    stable,        \* MockContext::stable: NoData (empty Vec) or the encoded values
    certifiedData, \* MockContext::certified_data
    certificate,   \* MockContext::certificate
    panicked,      \* the assertion or panic that ended the test
    refWrites,     \* history: types written through a reference since watch()
    refsAtWatch,   \* history: refs when the Watcher was last reset
    lost           \* history: a write through a reference missed the storage

vars == <<phase, storage, nextBox, refs, modified, flags, stable,
          certifiedData, certificate, panicked, refWrites, refsAtWatch, lost>>

(* A sign that hashes the payload without first copying it into 32 bytes. *)
SignUnpadded(d) == d

(* MockContext::sign (mock.rs:290-312): the payload is copied into 32 zero *)
(* bytes, then each of the 32 output words hashes the words before it and *)
(* one byte of that buffer.  The chain is taken as injective on the       *)
(* padded buffer, which is therefore what the certificate is a function of. *)
Sign(d) == [i \in 1..MaxCert |-> IF i <= Len(d) THEN d[i] ELSE 0]

(* A fresh Box holding v. *)
NewBox(v) == [val |-> v, box |-> nextBox]

Running == phase = "run" /\ panicked = NoPanic

-----------------------------------------------------------------------------
(* MockContext::new (mock.rs:87-103) with Watcher::default (580-599). *)
Init ==
    /\ phase = "build"
    /\ storage = [t \in Types |-> Absent]
    /\ nextBox = 1
    /\ refs = {}
    /\ modified = {}
    /\ flags = {}
    /\ stable = NoData
    /\ certifiedData = NoData
    /\ certificate = NoData
    /\ panicked = NoPanic
    /\ refWrites = {} /\ refsAtWatch = {}
    /\ lost = FALSE

(* with_data (mock.rs:215-219): insert a Box without marking anything. *)
WithData(t, v) ==
    /\ phase = "build" /\ panicked = NoPanic /\ nextBox <= MaxBox
    /\ storage' = [storage EXCEPT ![t] = NewBox(v)]
    /\ nextBox' = nextBox + 1
    /\ UNCHANGED <<phase, refs, modified, flags, stable, certifiedData,
                   certificate, panicked, refWrites, refsAtWatch, lost>>

(* with_stable (mock.rs:236-243), which calls stable_store (486-494) on   *)
(* the context being built, flag included.                                *)
WithStable(a) ==
    /\ phase = "build" /\ panicked = NoPanic
    /\ stable' = a
    /\ flags' = flags \cup {"stable_store"}
    /\ UNCHANGED <<phase, storage, nextBox, refs, modified, certifiedData,
                   certificate, panicked, refWrites, refsAtWatch, lost>>

(* with_certified_data (mock.rs:247-252): assert!(data.len() < 32), then   *)
(* the certificate and the data.                                          *)
WithCertifiedData(d) ==
    /\ phase = "build" /\ panicked = NoPanic
    /\ IF Len(d) < MaxCert
       THEN /\ certificate' = Sign(d)
            /\ certifiedData' = d
            /\ UNCHANGED panicked
       ELSE /\ panicked' = [site |-> "with_certified_data", len |-> Len(d)]
            /\ UNCHANGED <<certificate, certifiedData>>
    /\ UNCHANGED <<phase, storage, nextBox, refs, modified, flags, stable,
                   refWrites, refsAtWatch, lost>>

(* inject (mock.rs:283-286): the built context becomes the thread's. *)
Inject ==
    /\ phase = "build" /\ panicked = NoPanic
    /\ phase' = "run"
    /\ UNCHANGED <<storage, nextBox, refs, modified, flags, stable,
                   certifiedData, certificate, panicked, refWrites, refsAtWatch, lost>>

(* The next test, or the one after a panic, starts from MockContext::new(). *)
NewContext ==
    /\ phase = "run" \/ panicked # NoPanic
    /\ phase' = "build"
    /\ storage' = [t \in Types |-> Absent]
    /\ nextBox' = 1
    /\ refs' = {} /\ modified' = {} /\ flags' = {}
    /\ stable' = NoData /\ certifiedData' = NoData /\ certificate' = NoData
    /\ panicked' = NoPanic
    /\ refWrites' = {} /\ refsAtWatch' = {}
    /\ lost' = FALSE

(* watch (mock.rs:107-110): a fresh Watcher and nothing else; references  *)
(* get_mut handed out before it stay live (they borrow the 'static        *)
(* context, not the Watcher).                                             *)
Watch ==
    /\ Running
    /\ modified' = {} /\ flags' = {}
    /\ refWrites' = {} /\ refsAtWatch' = refs
    /\ UNCHANGED <<phase, storage, nextBox, refs, stable, certifiedData,
                   certificate, panicked, lost>>

(* clear_storage (mock.rs:337-339): test set-up, marks nothing. *)
ClearStorage ==
    /\ Running
    /\ storage' = [t \in Types |-> Absent]
    /\ UNCHANGED <<phase, nextBox, refs, modified, flags, stable,
                   certifiedData, certificate, panicked, refWrites,
                   refsAtWatch, lost>>

(* store (mock.rs:446-451): mark, then insert a new Box, dropping the old. *)
Store(t, v) ==
    /\ Running /\ nextBox <= MaxBox
    /\ modified' = modified \cup {t}
    /\ storage' = [storage EXCEPT ![t] = NewBox(v)]
    /\ nextBox' = nextBox + 1
    /\ UNCHANGED <<phase, refs, flags, stable, certifiedData, certificate,
                   panicked, refWrites, refsAtWatch, lost>>

(* get (mock.rs:454-462): or_insert_with a default Box, marking nothing. *)
Get(t) ==
    /\ Running
    /\ storage[t] = Absent => nextBox <= MaxBox
    /\ IF storage[t] = Absent
       THEN /\ storage' = [storage EXCEPT ![t] = NewBox(Dflt)]
            /\ nextBox' = nextBox + 1
       ELSE UNCHANGED <<storage, nextBox>>
    /\ UNCHANGED <<phase, refs, modified, flags, stable, certifiedData,
                   certificate, panicked, refWrites, refsAtWatch, lost>>

(* A get_mut that forgets to mark the type modified. *)
GetMutUnmarked(t) ==
    /\ Running
    /\ storage[t] = Absent => nextBox <= MaxBox
    /\ storage' = IF storage[t] = Absent
                  THEN [storage EXCEPT ![t] = NewBox(Dflt)] ELSE storage
    /\ nextBox' = IF storage[t] = Absent THEN nextBox + 1 ELSE nextBox
    /\ refs' = refs \cup {<<t, storage'[t].box>>}
    /\ UNCHANGED <<modified, phase, flags, stable, certifiedData, certificate,
                   panicked, refWrites, refsAtWatch, lost>>

(* get_mut (mock.rs:465-475): mark, or_insert_with a default Box, and hand *)
(* out a &mut into the Box.                                               *)
GetMut(t) ==
    /\ Running
    /\ storage[t] = Absent => nextBox <= MaxBox
    /\ modified' = modified \cup {t}
    /\ storage' = IF storage[t] = Absent
                  THEN [storage EXCEPT ![t] = NewBox(Dflt)] ELSE storage
    /\ nextBox' = IF storage[t] = Absent THEN nextBox + 1 ELSE nextBox
    /\ refs' = refs \cup {<<t, storage'[t].box>>}
    /\ UNCHANGED <<phase, flags, stable, certifiedData, certificate,
                   panicked, refWrites, refsAtWatch, lost>>

(* Canister code assigning v through a reference get_mut returned.  When  *)
(* the Box was dropped by a later store or delete the write goes to freed *)
(* memory (undefined behaviour); its outcome here is that the storage     *)
(* does not see it.                                                       *)
WriteRef(r, v) ==
    /\ Running
    /\ IF storage[r[1]] # Absent /\ storage[r[1]].box = r[2]
       THEN /\ storage' = [storage EXCEPT ![r[1]].val = v]
            /\ refWrites' = refWrites \cup {r[1]}
            /\ UNCHANGED lost
       ELSE /\ lost' = TRUE
            /\ UNCHANGED <<storage, refWrites>>
    /\ UNCHANGED <<phase, nextBox, refs, modified, flags, stable,
                   certifiedData, certificate, panicked, refsAtWatch>>

(* delete (mock.rs:478-483): mark, then remove the Box if there is one.   *)
Delete(t) ==
    /\ Running
    /\ modified' = modified \cup {t}
    /\ storage' = [storage EXCEPT ![t] = Absent]
    /\ UNCHANGED <<phase, nextBox, refs, flags, stable, certifiedData,
                   certificate, panicked, refWrites, refsAtWatch, lost>>

(* stable_store (mock.rs:486-494): replace the buffer with the encoding.  *)
StableStore(a) ==
    /\ Running
    /\ stable' = a
    /\ flags' = flags \cup {"stable_store"}
    /\ UNCHANGED <<phase, storage, nextBox, refs, modified, certifiedData,
                   certificate, panicked, refWrites, refsAtWatch, lost>>

(* stable_restore (mock.rs:497-510) decodes a prefix of the buffer and    *)
(* changes nothing but its flag.                                          *)
StableRestore ==
    /\ Running
    /\ flags' = flags \cup {"stable_restore"}
    /\ UNCHANGED <<phase, storage, nextBox, refs, modified, stable,
                   certifiedData, certificate, panicked, refWrites, refsAtWatch, lost>>

(* set_certified_data with the length test dropped. *)
SetCertifiedDataUnchecked(d) ==
    /\ Running
    /\ flags' = flags \cup {"set_certified_data"}
    /\ certificate' = Sign(d)
    /\ certifiedData' = d
    /\ UNCHANGED <<panicked, phase, storage, nextBox, refs, modified, stable,
                   refWrites, refsAtWatch, lost>>

(* set_certified_data (mock.rs:559-568): panic past 32 bytes, otherwise    *)
(* flag, certificate and data.                                            *)
SetCertifiedData(d) ==
    /\ Running
    /\ IF Len(d) > MaxCert
       THEN /\ panicked' = [site |-> "set_certified_data", len |-> Len(d)]
            /\ UNCHANGED <<flags, certificate, certifiedData>>
       ELSE /\ flags' = flags \cup {"set_certified_data"}
            /\ certificate' = Sign(d)
            /\ certifiedData' = d
            /\ UNCHANGED panicked
    /\ UNCHANGED <<phase, storage, nextBox, refs, modified, stable,
                   refWrites, refsAtWatch, lost>>

(* data_certificate (mock.rs:571-577) returns the certificate; flag only. *)
DataCertificate ==
    /\ Running
    /\ flags' = flags \cup {"data_certificate"}
    /\ UNCHANGED <<phase, storage, nextBox, refs, modified, stable,
                   certifiedData, certificate, panicked, refWrites, refsAtWatch, lost>>

Next ==
    \/ \E t \in Types, v \in Value : WithData(t, v) \/ Store(t, v)
    \/ \E a \in StableArgs : WithStable(a) \/ StableStore(a)
    \/ \E d \in Payloads : WithCertifiedData(d) \/ SetCertifiedData(d)
    \/ Inject \/ NewContext \/ Watch \/ ClearStorage
    \/ \E t \in Types : Get(t) \/ GetMut(t) \/ Delete(t)
    \/ \E r \in refs, v \in Value : WriteRef(r, v)
    \/ StableRestore \/ DataCertificate

Spec == Init /\ [][Next]_vars

-----------------------------------------------------------------------------
TypeOK ==
    /\ phase \in {"build", "run"}
    /\ storage \in [Types -> {Absent} \cup [val : Value, box : 1..MaxBox]]
    /\ nextBox \in 1..MaxBox + 1
    /\ refs \subseteq Types \X (1..MaxBox)
    /\ modified \subseteq Types
    /\ flags \subseteq {"stable_store", "stable_restore", "set_certified_data",
                        "data_certificate"}
    /\ stable \in StableArgs \cup {NoData}
    /\ certifiedData \in Payloads \cup {NoData}
    /\ certificate \in [1..MaxCert -> Bytes] \cup {NoData}
    /\ panicked \in {NoPanic} \cup
                    [site : {"with_certified_data", "set_certified_data"},
                     len : 0..MaxPayload]
    /\ refWrites \subseteq Types
    /\ refsAtWatch \subseteq Types \X (1..MaxBox)
    /\ lost \in BOOLEAN

(* Spec, Watcher state, and Watcher::is_modified (mock.rs:684-689): the   *)
(* Watcher holds the storage types "accessed in a mutable way during the  *)
(* execution".  A write through a reference get_mut returned is such an   *)
(* access, so its type is in storage_modified.                            *)
ModifiedCoversWrites == refWrites \subseteq modified

(* is_modified misses a write through a reference only when that         *)
(* reference was handed out before the last watch(): get_mut marks the    *)
(* type when it returns the &mut (mock.rs:468), so every reference of the *)
(* current execution is of a marked type, and the Watcher reset leaves   *)
(* the older ones live.                                                   *)
UnmarkedWritesUseOldRefs ==
    \A t \in refWrites \ modified : \E r \in refsAtWatch : r[1] = t

(* Spec sections 3 and 4.7: the certified data is at most 32 bytes and    *)
(* the certificate is the one of the most recently set payload.           *)
CertificateOfData ==
    /\ certifiedData = NoData <=> certificate = NoData
    /\ certifiedData # NoData =>
          Len(certifiedData) <= MaxCert /\ certificate = Sign(certifiedData)

(* Spec section 4.7 and 7: only a payload longer than 32 bytes is fatal,   *)
(* whether it is set by the builder or by set_certified_data.             *)
OnlyOversizedPayloadsFatal ==
    panicked # NoPanic => panicked.len > MaxCert

(* Spec section 8: when the certified data changes, the certificate       *)
(* changes with it, so tests can tell the payloads apart.                 *)
CertificateTracksData ==
    [][certifiedData # NoData /\ certifiedData' # NoData /\
       certifiedData' # certifiedData => certificate' # certificate]_vars

(* A value written through the reference get_mut returned is the value    *)
(* the storage holds: no write is lost to a Box that store or delete      *)
(* dropped in the meantime.                                               *)
NoLostWrite == ~lost
=============================================================================
