------------------------- MODULE MockStorageProofs -------------------------
(***************************************************************************)
(* Proof that a write through a reference escapes the Watcher's           *)
(* storage_modified only when the reference is older than the last        *)
(* watch() (UnmarkedWritesUseOldRefs), for every set of types and values. *)
(* The property is not inductive by itself: a write through a reference   *)
(* marks nothing at that moment, so the invariant also states that every  *)
(* reference handed out since the last watch() is of a marked type.       *)
(***************************************************************************)
EXTENDS MockStorage, SequenceTheorems, TLAPS

(* get_mut marks the type of every reference it hands out, so a reference *)
(* the Watcher was not reset after is of a marked type.                   *)
NewRefsMarked == \A r \in refs \ refsAtWatch : r[1] \in modified

WInv == NewRefsMarked /\ UnmarkedWritesUseOldRefs

(* MockContext::new has handed out no reference and seen no write.        *)
LEMMA InitWInv == Init => WInv
BY DEF Init, WInv, NewRefsMarked, UnmarkedWritesUseOldRefs

(* The operations that leave the references, the marks and the writes     *)
(* through references alone keep the invariant.                           *)
LEMMA WatcherUntouched ==
    ASSUME WInv, UNCHANGED <<refs, refsAtWatch, modified, refWrites>>
    PROVE  WInv'
BY DEF WInv, NewRefsMarked, UnmarkedWritesUseOldRefs

(* store and delete only add to storage_modified.                         *)
LEMMA MarkWInv ==
    ASSUME WInv, NEW t, modified' = modified \cup {t},
           UNCHANGED <<refs, refsAtWatch, refWrites>>
    PROVE  WInv'
BY DEF WInv, NewRefsMarked, UnmarkedWritesUseOldRefs

(* get_mut marks the type of the reference it returns.                    *)
LEMMA GetMutWInv ==
    ASSUME WInv, NEW t \in Types, GetMut(t)
    PROVE  WInv'
<1>1. \E b : refs' = refs \cup {<<t, b>>}
    BY DEF GetMut
<1>2. \A b : <<t, b>>[1] = t
    OBVIOUS
<1>3. modified' = modified \cup {t} /\ UNCHANGED <<refsAtWatch, refWrites>>
    BY DEF GetMut
<1>4. NewRefsMarked'
    BY <1>1, <1>2, <1>3 DEF WInv, NewRefsMarked
<1>5. UnmarkedWritesUseOldRefs'
    BY <1>3 DEF WInv, UnmarkedWritesUseOldRefs
<1> QED
    BY <1>4, <1>5 DEF WInv

(* A write through a live reference of an unmarked type: that reference   *)
(* is not new, so it was already handed out when the Watcher was reset.   *)
LEMMA WriteRefWInv ==
    ASSUME WInv, NEW r \in refs, NEW v \in Value, WriteRef(r, v)
    PROVE  WInv'
<1>1. UNCHANGED <<refs, refsAtWatch, modified>>
    BY DEF WriteRef
<1>2. refWrites' \subseteq refWrites \cup {r[1]}
    BY DEF WriteRef
<1>3. r[1] \notin modified => r \in refsAtWatch
    BY DEF WInv, NewRefsMarked
<1>4. UnmarkedWritesUseOldRefs'
    BY <1>1, <1>2, <1>3 DEF WInv, UnmarkedWritesUseOldRefs
<1> QED
    BY <1>1, <1>4 DEF WInv, NewRefsMarked

LEMMA NextWInv ==
    ASSUME WInv, [Next]_vars
    PROVE  WInv'
<1>1. CASE \E t \in Types, v \in Value : Store(t, v)
    BY <1>1, MarkWInv DEF Store
<1>2. CASE \E t \in Types : Delete(t)
    BY <1>2, MarkWInv DEF Delete
<1>3. CASE \E t \in Types : GetMut(t)
    BY <1>3, GetMutWInv
<1>4. CASE \E r \in refs, v \in Value : WriteRef(r, v)
    BY <1>4, WriteRefWInv
<1>5. CASE Watch \/ NewContext
    BY <1>5 DEF Watch, NewContext, WInv, NewRefsMarked, UnmarkedWritesUseOldRefs
<1>6. CASE \/ \E t \in Types, v \in Value : WithData(t, v)
           \/ \E a \in StableArgs : WithStable(a) \/ StableStore(a)
           \/ \E d \in Payloads : WithCertifiedData(d) \/ SetCertifiedData(d)
           \/ \E t \in Types : Get(t)
           \/ Inject \/ ClearStorage \/ StableRestore \/ DataCertificate
           \/ UNCHANGED vars
    BY <1>6, WatcherUntouched DEF WithData, WithStable, StableStore,
       WithCertifiedData, SetCertifiedData, Get, Inject, ClearStorage,
       StableRestore, DataCertificate, vars
<1> QED
    BY <1>1, <1>2, <1>3, <1>4, <1>5, <1>6 DEF Next

(* is_modified can miss a write through a reference only when get_mut     *)
(* handed that reference out before the last watch(), for every set of    *)
(* types and values: within one execution the Watcher sees every write.   *)
THEOREM OnlyOldRefsEscapeWatcher == Spec => []UnmarkedWritesUseOldRefs
<1>1. Spec => []WInv
    BY InitWInv, NextWInv, PTL DEF Spec
<1> QED
    BY <1>1, PTL DEF WInv
-----------------------------------------------------------------------------
(***************************************************************************)
(* Proof that every reachable context is well typed and that its          *)
(* certificate is the one of its certified data (CertificateOfData).  The *)
(* two are proved together: the certificate is a 32-byte array only       *)
(* because it is Sign of a payload, and Sign of a payload is not None     *)
(* only by NoDataAssumption.                                              *)
(***************************************************************************)
(* A test payload is a byte sequence of at most MaxPayload bytes.         *)
LEMMA PayloadSeq ==
    ASSUME NEW d \in Payloads
    PROVE  /\ d \in Seq(Bytes)
           /\ Len(d) \in 0..MaxPayload
           /\ \A i \in 1..Len(d) : d[i] \in Bytes
<1>1. PICK k \in 0..MaxPayload : d \in [1..k -> Bytes]
    BY DEF Payloads
<1>2. d \in Seq(Bytes)
    BY <1>1, StorageAssumption, SeqDef
<1>3. Len(d) = k
    BY <1>1, <1>2, LenProperties, StorageAssumption
<1> QED
    BY <1>1, <1>2, <1>3

(* sign of a payload is a 32-byte certificate, never None.                *)
LEMMA SignType ==
    ASSUME NEW d \in Payloads
    PROVE  Sign(d) \in [1..MaxCert -> Bytes] /\ Sign(d) # NoData
<1>1. Sign(d) \in [1..MaxCert -> Bytes]
    BY PayloadSeq, StorageAssumption DEF Sign
<1> QED
    BY <1>1, NoDataAssumption

(* Setting a payload of at most MaxCert bytes, by the builder or by       *)
(* set_certified_data, leaves the certificate the one of the data.        *)
LEMMA SetDataCInv ==
    ASSUME NEW d \in Payloads, Len(d) <= MaxCert,
           certificate' = Sign(d), certifiedData' = d
    PROVE  /\ certifiedData' \in Payloads \cup {NoData}
           /\ certificate' \in [1..MaxCert -> Bytes] \cup {NoData}
           /\ CertificateOfData'
<1>1. d # NoData
    BY NoDataAssumption
<1> QED
    BY <1>1, SignType DEF CertificateOfData

(* A panic at the certified-data boundary records the payload's length.   *)
LEMMA PanicType ==
    ASSUME NEW d \in Payloads, NEW site \in {"with_certified_data",
                                             "set_certified_data"}
    PROVE  [site |-> site, len |-> Len(d)] \in
               [site : {"with_certified_data", "set_certified_data"},
                len : 0..MaxPayload]
BY PayloadSeq

(* TypeOK in two halves: the typed storage with its Watcher, and the      *)
(* rest of the context.  Most operations touch only one of them.          *)
BoxSlot == {Absent} \cup [val : Value, box : 1..MaxBox]

StoreOK ==
    /\ storage \in [Types -> BoxSlot]
    /\ refWrites \subseteq Types
    /\ refsAtWatch \subseteq Types \X (1..MaxBox)
    /\ nextBox \in 1..MaxBox + 1
    /\ refs \subseteq Types \X (1..MaxBox)
    /\ modified \subseteq Types
    /\ lost \in BOOLEAN

DataOK ==
    /\ phase \in {"build", "run"}
    /\ flags \subseteq {"stable_store", "stable_restore", "set_certified_data",
                        "data_certificate"}
    /\ stable \in StableArgs \cup {NoData}
    /\ certifiedData \in Payloads \cup {NoData}
    /\ certificate \in [1..MaxCert -> Bytes] \cup {NoData}
    /\ panicked \in {NoPanic} \cup
                    [site : {"with_certified_data", "set_certified_data"},
                     len : 0..MaxPayload]

LEMMA TypeOKSplit == TypeOK <=> StoreOK /\ DataOK
BY DEF TypeOK, StoreOK, DataOK, BoxSlot

(* Certified-data half of the invariant. *)
DInv == DataOK /\ CertificateOfData

LEMMA StoreUntouched ==
    ASSUME StoreOK, UNCHANGED <<storage, refWrites, refsAtWatch, nextBox, refs,
                            modified, lost>>
    PROVE  StoreOK'
BY DEF StoreOK

LEMMA DataUntouched ==
    ASSUME DInv, UNCHANGED <<phase, flags, stable, certifiedData, certificate,
                             panicked>>
    PROVE  DInv'
BY DEF DInv, DataOK, CertificateOfData

(* A new Box takes the next allocation number, which the bound on Boxes   *)
(* keeps within 1..MaxBox.                                                *)
LEMMA NewBoxType ==
    ASSUME StoreOK, nextBox <= MaxBox, NEW v \in Value
    PROVE  NewBox(v) \in [val : Value, box : 1..MaxBox]
           /\ nextBox + 1 \in 1..MaxBox + 1
BY StorageAssumption DEF StoreOK, NewBox

(* MockContext::new is well typed and holds no certified data.            *)
LEMMA InitCInv == Init => StoreOK /\ DInv
<1> SUFFICES ASSUME Init PROVE StoreOK /\ DInv
    OBVIOUS
<1>1. StoreOK
    <2>1. storage \in [Types -> BoxSlot]
        BY DEF Init, BoxSlot
    <2>2. nextBox \in 1..MaxBox + 1
        BY StorageAssumption DEF Init
    <2> QED
        BY <2>1, <2>2 DEF Init, StoreOK
<1>2. DataOK
    BY DEF Init, DataOK
<1>3. CertificateOfData
    BY DEF Init, CertificateOfData
<1> QED
    BY <1>1, <1>2, <1>3 DEF DInv

(* The operations on the typed storage keep it well typed.                *)
LEMMA StoreStepOK ==
    ASSUME StoreOK, [Next]_vars
    PROVE  StoreOK'
<1>1. CASE \E t \in Types, v \in Value : WithData(t, v) \/ Store(t, v)
    <2>1. PICK t \in Types, v \in Value : WithData(t, v) \/ Store(t, v)
        BY <1>1
    <2>2. nextBox <= MaxBox
        BY <2>1 DEF WithData, Store
    <2>3. storage' = [storage EXCEPT ![t] = NewBox(v)]
          /\ nextBox' = nextBox + 1
        BY <2>1 DEF WithData, Store
    <2>4. storage' \in [Types -> BoxSlot]
        BY <2>2, <2>3, NewBoxType DEF StoreOK, BoxSlot
    <2> QED
        BY <2>1, <2>2, <2>3, <2>4, NewBoxType DEF WithData, Store, StoreOK
<1>2. CASE NewContext
    <2>1. storage' \in [Types -> BoxSlot]
        BY <1>2 DEF NewContext, BoxSlot
    <2>2. nextBox' \in 1..MaxBox + 1
        BY <1>2, StorageAssumption DEF NewContext
    <2> QED
        BY <1>2, <2>1, <2>2 DEF NewContext, StoreOK
<1>3. CASE Watch \/ ClearStorage
    BY <1>3 DEF Watch, ClearStorage, StoreOK, BoxSlot
<1>4. CASE \E t \in Types : Get(t) \/ GetMut(t)
    <2>1. PICK t \in Types : Get(t) \/ GetMut(t)
        BY <1>4
    <2>2. CASE storage[t] = Absent
        <3>1. nextBox <= MaxBox
            BY <2>1, <2>2 DEF Get, GetMut
        <3>2. storage' = [storage EXCEPT ![t] = NewBox(Dflt)]
              /\ nextBox' = nextBox + 1
            BY <2>1, <2>2 DEF Get, GetMut
        <3>3. NewBox(Dflt) \in [val : Value, box : 1..MaxBox]
              /\ nextBox + 1 \in 1..MaxBox + 1
            BY <3>1, NewBoxType DEF Value
        <3>4. storage' \in [Types -> BoxSlot]
            BY <3>2, <3>3 DEF StoreOK, BoxSlot
        <3>5. storage'[t].box \in 1..MaxBox
            BY <3>2, <3>3 DEF StoreOK
        <3> QED
            BY <2>1, <3>2, <3>3, <3>4, <3>5 DEF Get, GetMut, StoreOK
    <2>3. CASE storage[t] # Absent
        <3>1. UNCHANGED <<storage, nextBox>>
            BY <2>1, <2>3 DEF Get, GetMut
        <3>2. storage[t].box \in 1..MaxBox
            BY <2>3 DEF StoreOK, BoxSlot
        <3> QED
            BY <2>1, <3>1, <3>2 DEF Get, GetMut, StoreOK
    <2> QED
        BY <2>2, <2>3
<1>5. CASE \E t \in Types : Delete(t)
    BY <1>5 DEF Delete, StoreOK, BoxSlot
<1>6. CASE \E r \in refs, v \in Value : WriteRef(r, v)
    <2>1. PICK r \in refs, v \in Value : WriteRef(r, v)
        BY <1>6
    <2>2. CASE storage[r[1]] # Absent /\ storage[r[1]].box = r[2]
        <3>1. r[1] \in Types /\ storage[r[1]] \in [val : Value, box : 1..MaxBox]
            BY <2>2 DEF StoreOK, BoxSlot
        <3>2. storage' = [storage EXCEPT ![r[1]].val = v]
            BY <2>1, <2>2 DEF WriteRef
        <3>3. storage' \in [Types -> BoxSlot]
            BY <3>1, <3>2 DEF StoreOK, BoxSlot
        <3> QED
            BY <2>1, <2>2, <3>3 DEF WriteRef, StoreOK
    <2>3. CASE ~(storage[r[1]] # Absent /\ storage[r[1]].box = r[2])
        BY <2>1, <2>3 DEF WriteRef, StoreOK
    <2> QED
        BY <2>2, <2>3
<1>7. CASE \/ \E a \in StableArgs : WithStable(a) \/ StableStore(a)
           \/ \E d \in Payloads : WithCertifiedData(d) \/ SetCertifiedData(d)
           \/ Inject \/ StableRestore \/ DataCertificate \/ UNCHANGED vars
    BY <1>7, StoreUntouched DEF WithStable, StableStore, WithCertifiedData,
       SetCertifiedData, Inject, StableRestore, DataCertificate, vars
<1> QED
    BY <1>1, <1>2, <1>3, <1>4, <1>5, <1>6, <1>7 DEF Next

(* The operations on the context's phase, stable memory and certified     *)
(* data keep them well typed and the certificate that of the data.        *)
LEMMA DataStepOK ==
    ASSUME DInv, [Next]_vars
    PROVE  DInv'
<1>1. CASE \E a \in StableArgs : WithStable(a) \/ StableStore(a)
    BY <1>1 DEF WithStable, StableStore, DInv, DataOK, CertificateOfData
<1>2. CASE \E d \in Payloads : WithCertifiedData(d) \/ SetCertifiedData(d)
    <2>1. PICK d \in Payloads : WithCertifiedData(d) \/ SetCertifiedData(d)
        BY <1>2
    <2>2. Len(d) \in 0..MaxPayload
        BY PayloadSeq
    <2>3. CASE WithCertifiedData(d) /\ Len(d) < MaxCert
        <3>1. certificate' = Sign(d) /\ certifiedData' = d
            BY <2>3 DEF WithCertifiedData
        <3>2. /\ certifiedData' \in Payloads \cup {NoData}
              /\ certificate' \in [1..MaxCert -> Bytes] \cup {NoData}
              /\ CertificateOfData'
            BY <2>2, <2>3, <3>1, SetDataCInv, StorageAssumption
        <3> QED
            BY <2>3, <3>2 DEF WithCertifiedData, DInv, DataOK
    <2>4. CASE SetCertifiedData(d) /\ Len(d) <= MaxCert
        <3>1. certificate' = Sign(d) /\ certifiedData' = d
            BY <2>2, <2>4, StorageAssumption DEF SetCertifiedData
        <3>2. /\ certifiedData' \in Payloads \cup {NoData}
              /\ certificate' \in [1..MaxCert -> Bytes] \cup {NoData}
              /\ CertificateOfData'
            BY <2>4, <3>1, SetDataCInv
        <3>3. flags' = flags \cup {"set_certified_data"} /\ UNCHANGED panicked
            BY <2>2, <2>4, StorageAssumption DEF SetCertifiedData
        <3> QED
            BY <2>4, <3>2, <3>3 DEF SetCertifiedData, DInv, DataOK
    <2>5. CASE \/ WithCertifiedData(d) /\ ~(Len(d) < MaxCert)
               \/ SetCertifiedData(d) /\ ~(Len(d) <= MaxCert)
        <3>1. PICK site \in {"with_certified_data", "set_certified_data"} :
                  panicked' = [site |-> site, len |-> Len(d)]
            BY <2>2, <2>5, StorageAssumption DEF WithCertifiedData,
               SetCertifiedData
        <3>2. panicked' \in [site : {"with_certified_data", "set_certified_data"},
                             len : 0..MaxPayload]
            BY <3>1, PanicType
        <3>3. UNCHANGED <<phase, flags, stable, certifiedData, certificate>>
            BY <2>2, <2>5, StorageAssumption
            DEF WithCertifiedData, SetCertifiedData
        <3> QED
            BY <3>2, <3>3 DEF DInv, DataOK, CertificateOfData
    <2> QED
        BY <2>1, <2>3, <2>4, <2>5
<1>3. CASE Inject \/ StableRestore \/ DataCertificate \/ Watch
    BY <1>3 DEF Inject, StableRestore, DataCertificate, Watch, DInv, DataOK,
       CertificateOfData
<1>4. CASE NewContext
    BY <1>4 DEF NewContext, DInv, DataOK, CertificateOfData
<1>5. CASE \/ \E t \in Types, v \in Value : WithData(t, v) \/ Store(t, v)
           \/ \E t \in Types : Get(t) \/ GetMut(t) \/ Delete(t)
           \/ \E r \in refs, v \in Value : WriteRef(r, v)
           \/ ClearStorage \/ UNCHANGED vars
    BY <1>5, DataUntouched DEF WithData, Store, Get, GetMut, Delete, WriteRef,
       ClearStorage, vars
<1> QED
    BY <1>1, <1>2, <1>3, <1>4, <1>5 DEF Next

(* Every reachable context is well typed: in particular a certificate is  *)
(* always 32 bytes and a panic records the length of a test payload.      *)
THEOREM StorageTypeCorrect == Spec => []TypeOK
<1>1. Spec => [](StoreOK /\ DInv)
    BY InitCInv, StoreStepOK, DataStepOK, PTL DEF Spec
<1> QED
    BY <1>1, TypeOKSplit, PTL DEF DInv

(* The certified data that set_certified_data or the builder accepted is  *)
(* at most 32 bytes, and data_certificate returns the certificate of      *)
(* exactly that data (not of an older payload), for every byte range and  *)
(* certified-data limit.                                                   *)
THEOREM CertifiedDataSigned == Spec => []CertificateOfData
<1>1. Spec => []DInv
    BY InitCInv, DataStepOK, PTL DEF Spec
<1> QED
    BY <1>1, PTL DEF DInv
=============================================================================
