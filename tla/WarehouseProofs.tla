-------------------------- MODULE WarehouseProofs --------------------------
(***************************************************************************)
(* For runs that do not overlap, and a pointer that can be read, the       *)
(* retained versions of a table stay readable and frozen, hold the bytes   *)
(* of one run for each mapping, and a mapping that failed keeps its files; *)
(* a vacuum collects every orphan whose DELETE does not fail, also when    *)
(* the pointer cannot be read: for any number of runs, mappings,           *)
(* partitions, retained versions and failing DELETEs, and runs that stop   *)
(* between any two S3 commands.                                            *)
(***************************************************************************)
EXTENDS Warehouse, FiniteSetTheorems, TLAPS

\* No two runs are active: what the pipeline lock is for (JobQueueProofs).
OneRun == \A q, r \in Runs : ~Ended(q) /\ ~Ended(r) => q = r

Window(v) == pointer - Retain < v /\ v <= pointer

\* A published manifest lists objects of its own or of earlier versions.
KeysBounded == \A v \in Versions : v <= pointer => \A f \in manifests[v] : f.key[1] <= v

\* A run works on the version after the published one; once it has flipped
\* the pointer, that is the published one.
BaseCurrent ==
    \A r \in Runs :
        /\ pc[r] \in {"manifest", "map", "upload", "flip"} => base[r] = pointer /\ pointer < MaxVersion
        /\ pc[r] = "manifest" => pointer > 0
        /\ pc[r] \in {"list", "read", "delete"} => base[r] + 1 = pointer

\* The files a run has gathered are there; those in its own version belong to
\* mappings it has finished.
WorkSound ==
    \A r \in Runs :
        /\ pc[r] \in {"new", "pointer", "manifest"} => files[r] = {}
        /\ pc[r] \in {"new", "pointer", "manifest", "map"} => put[r] = {}
        /\ pc[r] \in {"map", "upload"} =>
             \A f \in files[r] : /\ objects[f.key] = f.run
                                 /\ f.key[1] <= base[r] + 1
                                 /\ f.key[1] = base[r] + 1 => f.key[2] \notin pending[r]

\* So are the partitions it has uploaded of its current mapping.
UploadSound ==
    \A r \in Runs : pc[r] = "upload" =>
        /\ current[r] \in Mappings \ pending[r]
        /\ \A f \in files[r] : f.key[1] = base[r] + 1 => f.key[2] # current[r]
        /\ \A p \in put[r] : objects[<<base[r] + 1, current[r], p>>] = r

\* The version about to be published is complete.
FlipSound ==
    \A r \in Runs : pc[r] = "flip" =>
        /\ Readable(base[r] + 1)
        /\ \A f \in manifests[base[r] + 1] : f.key[1] <= base[r] + 1

\* The vacuum has listed every manifest and spares what the window lists.
VacuumSound ==
    \A r \in Runs :
        /\ pc[r] = "read" => listed[r] = stored
        /\ pc[r] = "delete" =>
             \A v \in Versions : Window(v) => \A f \in manifests[v] : f.key \notin targets[r]

StoreInv == /\ TypeOK /\ OneRun /\ KeysBounded /\ BaseCurrent /\ WorkSound /\ UploadSound
            /\ FlipSound /\ VacuumSound /\ RetainedReadable

-----------------------------------------------------------------------------
(* Retention.                                                               *)

\* versions_to_drop never drops a version of the window: fewer than Retain
\* version numbers lie between it and the current one.
LEMMA WindowNotDoomed ==
    ASSUME NEW S \in SUBSET Versions, NEW cur \in Nat, NEW v \in Nat,
           cur - Retain < v, v <= cur
    PROVE  v \notin Doomed(S, cur)
<1> DEFINE Above == {w \in S : v < w /\ w <= cur}
<1>1. IsFiniteSet((v + 1) .. cur) /\ Cardinality((v + 1) .. cur) <= cur - v
  <2>1. v + 1 \in Int /\ cur \in Int
    OBVIOUS
  <2>2. /\ IsFiniteSet((v + 1) .. cur)
        /\ Cardinality((v + 1) .. cur) = IF v + 1 > cur THEN 0 ELSE cur - (v + 1) + 1
    BY <2>1, FS_Interval
  <2> QED
    BY <2>2
<1>2. Above \subseteq (v + 1) .. cur
  <2>1. ASSUME NEW w \in Above PROVE w \in (v + 1) .. cur
    <3>1. w \in Int /\ v < w /\ w <= cur
      BY <2>1, WarehouseAssumption DEF Versions
    <3> QED
      BY <3>1
  <2> QED
    BY <2>1
<1>3. IsFiniteSet(Above) /\ Cardinality(Above) <= Cardinality((v + 1) .. cur)
  BY <1>1, <1>2, FS_Subset
<1>4. Cardinality(Above) \in Nat /\ Cardinality((v + 1) .. cur) \in Nat
  BY <1>1, <1>3, FS_CardinalityType
<1>5. Cardinality(Above) < Retain
  BY <1>1, <1>3, <1>4, WarehouseAssumption
<1> HIDE DEF Above
<1>6. ~(Cardinality(Above) >= Retain)
  BY <1>4, <1>5, WarehouseAssumption
<1> QED
  BY <1>6 DEF Doomed, Above

-----------------------------------------------------------------------------
(* Types.                                                                   *)

\* The empty table is well typed.
LEMMA TypeInit == Init => TypeOK
  BY WarehouseAssumption DEF Init, TypeOK

\* What TypeOK rests on: a run that may still publish works on a version below
\* the bound, and uploads for a mapping.
TypeInv ==
    /\ TypeOK
    /\ \A r \in Runs :
          /\ pc[r] \in {"manifest", "map", "upload", "flip"} => base[r] < MaxVersion
          /\ pc[r] = "upload" => current[r] \in Mappings

\* Every step keeps the types, whether runs overlap or not.
LEMMA TypeStep == TypeInv /\ [Next]_vars => TypeOK'
<1> SUFFICES ASSUME TypeInv, [Next]_vars PROVE TypeOK'
  OBVIOUS
<1> USE DEF Goto, store, locals, flags
<1> TypeOK
  BY DEF TypeInv
<1>1. CASE UNCHANGED vars
  BY <1>1 DEF vars, TypeOK
<1>2. ASSUME NEW r \in Runs, Begin(r) PROVE TypeOK'
  BY <1>2 DEF Begin, TypeOK
<1>3. ASSUME NEW r \in Runs, ReadPointer(r) PROVE TypeOK'
  BY <1>3, WarehouseAssumption DEF ReadPointer, TypeOK
<1>4. ASSUME NEW r \in Runs, ReadManifest(r) PROVE TypeOK'
  BY <1>4 DEF ReadManifest, StartFiles, TypeOK
<1>5. ASSUME NEW r \in Runs, NEW m \in Mappings, SkipMapping(r, m) PROVE TypeOK'
  BY <1>5 DEF SkipMapping, TypeOK
<1>6. ASSUME NEW r \in Runs, NEW m \in Mappings, NEW parts \in SUBSET Parts,
             StartMapping(r, m, parts)
      PROVE  TypeOK'
  BY <1>6 DEF StartMapping, TypeOK
<1>7. ASSUME NEW r \in Runs, NEW p \in Parts, UploadPart(r, p) PROVE TypeOK'
  BY <1>7 DEF UploadPart, TypeOK
<1>8. ASSUME NEW r \in Runs, MappingDone(r) PROVE TypeOK'
  <2>1. current[r] \in Mappings /\ base[r] + 1 \in Versions
    BY <1>8, WarehouseAssumption
    DEF MappingDone, TypeInv, TypeOK, Versions
  <2>2. {[key |-> <<NextVersion(r), current[r], p>>, run |-> r] : p \in put[r]} \in SUBSET Files
    BY <2>1 DEF Files, Keys, NextVersion, TypeOK
  <2>3. files' \in [Runs -> SUBSET Files]
    BY <1>8, <2>2 DEF MappingDone, ApplyWrites, TypeOK
  <2> QED
    BY <1>8, <2>1, <2>3 DEF MappingDone, LeaveMapping, TypeOK
<1>9. ASSUME NEW r \in Runs, UploadFails(r) PROVE TypeOK'
  BY <1>9 DEF UploadFails, LeaveMapping, TypeOK
<1>10. ASSUME NEW r \in Runs, PutManifest(r) PROVE TypeOK'
  <2>1. NextVersion(r) \in Versions
    BY <1>10, WarehouseAssumption
    DEF PutManifest, TypeInv, NextVersion, TypeOK, Versions
  <2> QED
    BY <1>10, <2>1 DEF PutManifest, TypeOK
<1>11. ASSUME NEW r \in Runs, PutPointer(r) PROVE TypeOK'
  <2>1. NextVersion(r) \in 0 .. MaxVersion
    BY <1>11, WarehouseAssumption
    DEF PutPointer, TypeInv, NextVersion, TypeOK
  <2> QED
    BY <1>11, <2>1 DEF PutPointer, TypeOK
<1>12. ASSUME NEW r \in Runs, VacuumList(r) PROVE TypeOK'
  BY <1>12 DEF VacuumList, TypeOK
<1>13. ASSUME NEW r \in Runs, VacuumRead(r) PROVE TypeOK'
  BY <1>13 DEF VacuumRead, Unreferenced, TypeOK
<1>14. ASSUME NEW r \in Runs, NEW k \in Keys, VacuumObject(r, k) PROVE TypeOK'
  BY <1>14 DEF VacuumObject, TypeOK
<1>15. ASSUME NEW r \in Runs, NEW v \in Versions, VacuumManifest(r, v) PROVE TypeOK'
  BY <1>15 DEF VacuumManifest, TypeOK
<1>16. ASSUME NEW r \in Runs, Untouched(r) \/ VacuumDone(r) \/ Stop(r) \/ Cancelled(r)
       PROVE  TypeOK'
  <2>1. End(r) /\ UNCHANGED store
    BY <1>16 DEF Untouched, VacuumDone, Stop, Cancelled
  <2> QED
    BY <2>1, WarehouseAssumption DEF End, TypeOK
<1> QED
  BY <1>1, <1>2, <1>3, <1>4, <1>5, <1>6, <1>7, <1>8, <1>9, <1>10, <1>11, <1>12, <1>13,
     <1>14, <1>15, <1>16 DEF Next

\* The strengthening is inductive.
LEMMA TypeInvStep == TypeInv /\ [Next]_vars => TypeInv'
<1> SUFFICES ASSUME TypeInv, [Next]_vars PROVE TypeInv'
  OBVIOUS
<1>1. TypeOK /\ TypeOK'
  BY TypeStep DEF TypeInv
<1>2. CASE UNCHANGED vars
  BY <1>1, <1>2 DEF vars, TypeInv
<1> DEFINE Sound(q) == /\ pc'[q] \in {"manifest", "map", "upload", "flip"} => base'[q] < MaxVersion
                       /\ pc'[q] = "upload" => current'[q] \in Mappings
<1>3. ASSUME NEW r \in Runs, NEW q \in Runs,
             \/ Begin(r) \/ ReadPointer(r) \/ ReadManifest(r)
             \/ \E m \in Mappings : SkipMapping(r, m)
             \/ \E m \in Mappings, parts \in SUBSET Parts : StartMapping(r, m, parts)
             \/ \E p \in Parts : UploadPart(r, p)
             \/ MappingDone(r) \/ UploadFails(r) \/ PutManifest(r)
      PROVE  Sound(q)
  <2> USE DEF Goto, LeaveMapping, store, locals
  <2>1. CASE Begin(r)
    BY <1>1, <2>1 DEF TypeInv, TypeOK, Begin
  <2>2. CASE ReadPointer(r)
    BY <1>1, <2>2 DEF TypeInv, TypeOK, ReadPointer
  <2>3. CASE ReadManifest(r)
    BY <1>1, <2>3 DEF TypeInv, TypeOK, ReadManifest
  <2>4. CASE \E m \in Mappings : SkipMapping(r, m)
    BY <1>1, <2>4 DEF TypeInv, TypeOK, SkipMapping
  <2>5. CASE \E m \in Mappings, parts \in SUBSET Parts : StartMapping(r, m, parts)
    BY <1>1, <2>5 DEF TypeInv, TypeOK, StartMapping
  <2>6. CASE \E p \in Parts : UploadPart(r, p)
    BY <1>1, <2>6 DEF TypeInv, TypeOK, UploadPart
  <2>7. CASE MappingDone(r) \/ UploadFails(r) \/ PutManifest(r)
    BY <1>1, <2>7 DEF TypeInv, TypeOK, MappingDone, UploadFails, PutManifest
  <2> QED
    BY <1>3, <2>1, <2>2, <2>3, <2>4, <2>5, <2>6, <2>7
<1>4. ASSUME NEW r \in Runs,
             \/ PutPointer(r) \/ VacuumList(r) \/ VacuumRead(r)
             \/ \E k \in Keys : VacuumObject(r, k)
             \/ \E v \in Versions : VacuumManifest(r, v)
      PROVE  TypeInv'
  <2>1. /\ UNCHANGED <<base, current>>
        /\ \A q \in Runs : pc'[q] = pc[q] \/ pc'[q] \in {"list", "read", "delete"}
    BY <1>1, <1>4 DEF TypeOK, Goto, store, locals, PutPointer, VacuumList, VacuumRead, VacuumObject,
       VacuumManifest
  <2> QED
    BY <1>1, <2>1 DEF TypeInv
<1>5. ASSUME NEW r \in Runs, Untouched(r) \/ VacuumDone(r) \/ Stop(r) \/ Cancelled(r)
      PROVE  TypeInv'
  <2>1. End(r)
    BY <1>5 DEF Untouched, VacuumDone, Stop, Cancelled
  <2>2. /\ pc'[r] = "ended"
        /\ \A q \in Runs : q # r => pc'[q] = pc[q] /\ base'[q] = base[q] /\ current'[q] = current[q]
    BY <1>1, <2>1 DEF End, Goto, TypeOK
  <2> QED
    BY <1>1, <2>2 DEF TypeInv
<1>6. (\A q \in Runs : Sound(q)) => TypeInv'
  BY <1>1 DEF TypeInv
<1> QED
  BY <1>2, <1>3, <1>4, <1>5, <1>6 DEF Next

-----------------------------------------------------------------------------
(* The steps.  A step belongs to one run r, and no other run is active, so  *)
(* only the clauses of r and those about the store can be disturbed.        *)

\* The run that takes a step, other than Begin, is the only active one.
LEMMA Alone ==
    ASSUME OneRun, NEW r \in Runs, pc[r] \notin {"new", "ended"}
    PROVE  \A q \in Runs : q # r => pc[q] \in {"new", "ended"}
  BY DEF OneRun, Ended

\* At the start there is no version and no active run.
LEMMA StoreInit == Init => StoreInv
<1> SUFFICES ASSUME Init PROVE StoreInv
  OBVIOUS
<1>1. TypeOK
  BY TypeInit
<1>2. OneRun /\ BaseCurrent /\ WorkSound /\ UploadSound /\ FlipSound /\ VacuumSound
  BY DEF Init, OneRun, Ended, BaseCurrent, WorkSound, UploadSound, FlipSound, VacuumSound
<1>3. KeysBounded /\ RetainedReadable
  BY WarehouseAssumption DEF Init, KeysBounded, RetainedReadable, Versions
<1> QED
  BY <1>1, <1>2, <1>3 DEF StoreInv

\* The clauses other than the type.
Clauses == /\ OneRun /\ KeysBounded /\ BaseCurrent /\ WorkSound /\ UploadSound
           /\ FlipSound /\ VacuumSound /\ RetainedReadable

\* A run that ends leaves the store as it is.
LEMMA EndStep ==
    ASSUME StoreInv, NEW r \in Runs, ~Ended(r), End(r), UNCHANGED store
    PROVE  Clauses'
<1>1. TypeOK /\ Clauses
  BY DEF StoreInv, Clauses
<1>2. \A q \in Runs : q # r => pc[q] \in {"new", "ended"}
  BY <1>1, Alone DEF Clauses, Ended
<1>3. \A q \in Runs : pc'[q] \in {"new", "ended"}
  BY <1>1, <1>2 DEF End, Goto, TypeOK
<1>4. OneRun' /\ BaseCurrent' /\ UploadSound' /\ FlipSound' /\ VacuumSound'
  BY <1>3 DEF OneRun, Ended, BaseCurrent, UploadSound, FlipSound, VacuumSound
<1>5. WorkSound'
  <2>1. \A q \in Runs : q # r => /\ pc'[q] = pc[q] /\ files'[q] = files[q] /\ put'[q] = put[q]
    BY <1>1 DEF End, Goto, TypeOK
  <2>2. pc'[r] = "ended"
    BY <1>1 DEF End, Goto, TypeOK
  <2> QED
    BY <1>1, <1>3, <2>1, <2>2 DEF Clauses, WorkSound
<1>6. KeysBounded' /\ RetainedReadable'
  BY <1>1 DEF Clauses, KeysBounded, RetainedReadable, Readable, store
<1> QED
  BY <1>4, <1>5, <1>6 DEF Clauses

\* The steps before the upload read the store and gather the published files.
LEMMA ReadStep ==
    ASSUME Overlap = FALSE, PointerFaults = FALSE, StoreInv, NEW r \in Runs,
           Begin(r) \/ ReadPointer(r) \/ ReadManifest(r)
    PROVE  Clauses'
<1>1. TypeOK /\ Clauses
  BY DEF StoreInv, Clauses
<1>2. KeysBounded' /\ RetainedReadable'
  BY <1>1 DEF Clauses, KeysBounded, RetainedReadable, Readable, store, Begin, ReadPointer, ReadManifest
<1>3. \A q \in Runs : q # r => pc[q] \in {"new", "ended"} /\ pc'[q] = pc[q]
  BY <1>1, Alone DEF Clauses, TypeOK, Ended, Goto, Begin, ReadPointer, ReadManifest
<1>4. OneRun'
  BY <1>3 DEF OneRun, Ended
<1>5. CASE Begin(r)
  <2>1. pc'[r] = "pointer" /\ pc[r] = "new"
    BY <1>1, <1>5 DEF Begin, Goto, TypeOK
  <2>2. BaseCurrent' /\ UploadSound' /\ FlipSound' /\ VacuumSound'
    BY <1>3, <2>1 DEF BaseCurrent, UploadSound, FlipSound, VacuumSound
  <2>3. WorkSound'
    BY <1>1, <1>3, <1>5, <2>1 DEF Clauses, WorkSound, Begin, locals
  <2> QED
    BY <1>2, <1>4, <2>2, <2>3 DEF Clauses
<1>6. CASE ReadPointer(r)
  <2>1. pc'[r] = (IF pointer = 0 THEN "map" ELSE "manifest") /\ pc[r] = "pointer"
    BY <1>1, <1>6 DEF ReadPointer, Goto, TypeOK
  <2>2. base'[r] = pointer /\ pointer < MaxVersion /\ pointer \in Nat /\ pointer' = pointer
    BY <1>1, <1>6, WarehouseAssumption DEF ReadPointer, TypeOK, store
  <2>3. BaseCurrent'
    BY <1>3, <2>1, <2>2 DEF BaseCurrent
  <2>4. UploadSound' /\ FlipSound' /\ VacuumSound'
    BY <1>3, <2>1 DEF UploadSound, FlipSound, VacuumSound
  <2>5. WorkSound'
    BY <1>1, <1>3, <1>6, <2>1 DEF Clauses, WorkSound, ReadPointer
  <2> QED
    BY <1>2, <1>4, <2>3, <2>4, <2>5 DEF Clauses
<1>7. CASE ReadManifest(r)
  <2>1. pc'[r] = "map" /\ pc[r] = "manifest"
    BY <1>1, <1>7 DEF ReadManifest, Goto, TypeOK
  <2>2. base[r] = pointer /\ pointer < MaxVersion /\ pointer > 0
    BY <1>1, <2>1 DEF Clauses, BaseCurrent
  <2>3. BaseCurrent'
    BY <1>3, <1>7, <2>1, <2>2 DEF BaseCurrent, ReadManifest, store
  <2>4. UploadSound' /\ FlipSound' /\ VacuumSound'
    BY <1>3, <2>1 DEF UploadSound, FlipSound, VacuumSound
  <2>5. \A f \in manifests[pointer] : objects[f.key] = f.run /\ f.key[1] <= pointer
    <3>1. pointer \in Versions /\ pointer - Retain < pointer /\ pointer <= pointer
      BY <1>1, <2>2, WarehouseAssumption DEF TypeOK, Versions
    <3> QED
      BY <1>1, <3>1 DEF Clauses, KeysBounded, RetainedReadable, Readable
  <2>6. \A f \in files'[r] : f \in manifests[pointer]
    BY <1>1, <1>7, <2>2 DEF ReadManifest, StartFiles, TypeOK
  <2>7. \A f \in manifests[pointer] : f.key[1] \in Int
    BY <1>1, <2>2, WarehouseAssumption DEF TypeOK, Files, Keys, Versions
  <2>8. \A f \in files'[r] : /\ objects'[f.key] = f.run
                             /\ f.key[1] <= base'[r] + 1 /\ f.key[1] # base'[r] + 1
    <3>1. objects' = objects /\ base' = base /\ base[r] \in Int
      BY <1>1, <1>7 DEF ReadManifest, store, TypeOK
    <3> QED
      BY <2>2, <2>5, <2>6, <2>7, <3>1
  <2>9. WorkSound'
    BY <1>1, <1>3, <1>7, <2>1, <2>8 DEF Clauses, WorkSound, ReadManifest, TypeOK
  <2> QED
    BY <1>2, <1>4, <2>3, <2>4, <2>9 DEF Clauses
<1> QED
  BY <1>5, <1>6, <1>7

\* An upload goes under the next version, which no published one lists.
LEMMA UploadFresh ==
    ASSUME StoreInv, NEW r \in Runs, NEW p \in Parts, UploadPart(r, p)
    PROVE  \A v \in Versions : v <= pointer =>
               \A f \in manifests[v] : objects'[f.key] = objects[f.key]
<1> DEFINE k == <<base[r] + 1, current[r], p>>
<1>1. TypeOK /\ base[r] = pointer /\ pointer \in Int
  BY DEF StoreInv, BaseCurrent, UploadPart, TypeOK
<1>2. k[1] = pointer + 1
  BY <1>1
<1>3. objects' = [objects EXCEPT ![k] = r]
  BY DEF UploadPart, NextVersion
<1>4. \A x \in Keys : x[1] \in Int
  BY WarehouseAssumption DEF Keys, Versions
<1>5. \A v \in Versions : v \in Int
  BY WarehouseAssumption DEF Versions
<1>6. \A v \in Versions : \A f \in manifests[v] : f.key \in Keys
  BY <1>1 DEF TypeOK, Files
<1>7. \A v \in Versions : v <= pointer => \A f \in manifests[v] : f.key[1] <= v
  BY DEF StoreInv, KeysBounded
<1> HIDE DEF k
<1>8. \A v \in Versions : v <= pointer => \A f \in manifests[v] : f.key # k
  BY <1>1, <1>2, <1>4, <1>5, <1>6, <1>7
<1> QED
  BY <1>1, <1>3, <1>6, <1>8 DEF TypeOK

\* The mapping loop changes no object that the files it has gathered, or a
\* published version, list: it uploads under a version not yet published.
LEMMA LoopStep ==
    ASSUME StoreInv, NEW r \in Runs,
           \/ \E m \in Mappings : SkipMapping(r, m)
           \/ \E m \in Mappings, parts \in SUBSET Parts : StartMapping(r, m, parts)
           \/ \E p \in Parts : UploadPart(r, p)
           \/ MappingDone(r) \/ UploadFails(r)
    PROVE  Clauses'
<1> USE DEF Goto, LeaveMapping
<1>1. TypeOK /\ Clauses
  BY DEF StoreInv, Clauses
<1>2. pc[r] \in {"map", "upload"} /\ pc'[r] \in {"map", "upload"}
  BY <1>1 DEF TypeOK, SkipMapping, StartMapping, UploadPart, MappingDone, UploadFails
<1>3. \A q \in Runs : q # r => pc[q] \in {"new", "ended"}
  BY <1>1, <1>2, Alone DEF Clauses
<1>4. \A q \in Runs : q # r => /\ pc'[q] = pc[q] /\ files'[q] = files[q] /\ put'[q] = put[q]
  BY <1>1 DEF TypeOK, SkipMapping, StartMapping, UploadPart, MappingDone, UploadFails
<1>5. OneRun'
  BY <1>3, <1>4 DEF OneRun, Ended
<1>6. base[r] = pointer /\ pointer < MaxVersion /\ pointer \in Nat
  BY <1>1, <1>2, WarehouseAssumption DEF Clauses, BaseCurrent, TypeOK
<1>7. pointer' = pointer /\ stored' = stored /\ manifests' = manifests /\ base' = base
  BY DEF store, SkipMapping, StartMapping, UploadPart, MappingDone, UploadFails
<1>8. BaseCurrent' /\ FlipSound' /\ VacuumSound'
  BY <1>2, <1>3, <1>4, <1>6, <1>7 DEF BaseCurrent, FlipSound, VacuumSound
<1>9. KeysBounded'
  BY <1>1, <1>7 DEF Clauses, KeysBounded
<1>10. \A f \in files[r] : /\ objects[f.key] = f.run /\ f.key[1] <= base[r] + 1
                           /\ f.key[1] = base[r] + 1 => f.key[2] \notin pending[r]
  BY <1>1, <1>2 DEF Clauses, WorkSound
<1>11. (\A q \in Runs : q # r /\ pc'[q] = "new" => files'[q] = {} /\ put'[q] = {})
  BY <1>1, <1>4 DEF Clauses, WorkSound
<1>12. ASSUME NEW p \in Parts, UploadPart(r, p) PROVE Clauses'
  <2>1. /\ pc' = pc /\ pc[r] = "upload" /\ files' = files /\ pending' = pending
        /\ current' = current /\ put'[r] = put[r] \cup {p}
    BY <1>1, <1>12 DEF UploadPart, TypeOK
  <2> DEFINE k == <<base[r] + 1, current[r], p>>
  <2>2. k \in Keys /\ k[1] = base[r] + 1 /\ k[2] = current[r]
    BY <1>1, <1>6, <2>1, WarehouseAssumption DEF Keys, Versions, Clauses, UploadSound
  <2>3. objects' = [objects EXCEPT ![k] = r]
    BY <1>12 DEF UploadPart, NextVersion
  <2>4. objects'[k] = r /\ \A x \in Keys : x # k => objects'[x] = objects[x]
    BY <1>1, <2>2, <2>3 DEF TypeOK
  <2>5. \A q \in put[r] : objects'[<<base[r] + 1, current[r], q>>] = r
    <3>1. \A q \in put[r] : <<base[r] + 1, current[r], q>> \in Keys
      BY <1>1, <1>6, <2>1, WarehouseAssumption DEF Keys, Versions, Clauses, UploadSound, TypeOK
    <3> QED
      BY <1>1, <2>1, <2>4, <3>1 DEF Clauses, UploadSound
  <2>6. \A f \in files[r] : f.key \in Keys /\ f.key # k
    <3>1. \A f \in files[r] : f.key \in Keys
      BY <1>1 DEF TypeOK, Files
    <3>2. \A f \in files[r] : f.key[1] = k[1] => f.key[2] # k[2]
      BY <1>1, <2>1, <2>2 DEF Clauses, UploadSound
    <3> HIDE DEF k
    <3> QED
      BY <3>1, <3>2
  <2>7. \A v \in Versions : v <= pointer => \A f \in manifests[v] : objects'[f.key] = objects[f.key]
    BY <1>12, UploadFresh
  <2> HIDE DEF k
  <2>8. RetainedReadable'
    BY <1>1, <1>7, <2>7 DEF Clauses, RetainedReadable, Readable
  <2>9. UploadSound'
    <3>1. objects'[<<base[r] + 1, current[r], p>>] = r
      BY <2>4 DEF k
    <3> QED
      BY <1>1, <1>3, <1>4, <1>7, <2>1, <2>5, <3>1 DEF Clauses, UploadSound
  <2>10. WorkSound'
    BY <1>3, <1>4, <1>7, <1>10, <1>11, <2>1, <2>4, <2>6 DEF WorkSound
  <2> QED
    BY <1>5, <1>8, <1>9, <2>8, <2>9, <2>10 DEF Clauses
<1>13. CASE objects' = objects
  <2>1. RetainedReadable'
    BY <1>1, <1>7, <1>13 DEF Clauses, RetainedReadable, Readable
  <2>2. ASSUME NEW m \in Mappings, SkipMapping(r, m) PROVE WorkSound' /\ UploadSound'
    <3>1. pc' = pc /\ pc[r] = "map" /\ put' = put /\ files' = files /\ pending'[r] \subseteq pending[r]
      BY <1>1, <2>2 DEF SkipMapping, TypeOK
    <3>2. UploadSound'
      BY <1>3, <1>4, <3>1 DEF UploadSound
    <3>3. WorkSound'
      BY <1>1, <1>3, <1>4, <1>7, <1>10, <1>11, <1>13, <3>1 DEF Clauses, WorkSound
    <3> QED
      BY <3>2, <3>3
  <2>3. ASSUME NEW m \in Mappings, NEW parts \in SUBSET Parts, StartMapping(r, m, parts)
        PROVE  WorkSound' /\ UploadSound'
    <3>1. /\ pc[r] = "map" /\ pc'[r] = "upload" /\ put' = put /\ files' = files
          /\ pending'[r] = pending[r] \ {m} /\ current'[r] = m /\ m \in pending[r]
      BY <1>1, <2>3 DEF StartMapping, TypeOK
    <3>2. put[r] = {}
      BY <1>1, <3>1 DEF Clauses, WorkSound
    <3>3. UploadSound'
      BY <1>3, <1>4, <1>7, <1>10, <3>1, <3>2 DEF UploadSound
    <3>4. WorkSound'
      BY <1>1, <1>3, <1>4, <1>7, <1>10, <1>11, <1>13, <3>1 DEF Clauses, WorkSound
    <3> QED
      BY <3>3, <3>4
  <2>4. ASSUME UploadFails(r) PROVE WorkSound' /\ UploadSound'
    <3>1. pc'[r] = "map" /\ put'[r] = {} /\ files' = files /\ pending' = pending
      BY <1>1, <2>4 DEF UploadFails, TypeOK
    <3>2. UploadSound'
      BY <1>3, <1>4, <3>1 DEF UploadSound
    <3>3. WorkSound'
      BY <1>3, <1>4, <1>7, <1>10, <1>11, <1>13, <3>1 DEF WorkSound
    <3> QED
      BY <3>2, <3>3
  <2>5. ASSUME MappingDone(r) PROVE WorkSound' /\ UploadSound'
    <3>1. pc[r] = "upload" /\ pc'[r] = "map" /\ put'[r] = {} /\ pending' = pending
      BY <1>1, <2>5 DEF MappingDone, TypeOK
    <3>2. UploadSound'
      BY <1>3, <1>4, <3>1 DEF UploadSound
    <3>3. /\ current[r] \in Mappings \ pending[r]
          /\ \A p \in put[r] : objects[<<base[r] + 1, current[r], p>>] = r
      BY <1>1, <3>1 DEF Clauses, UploadSound
    <3> DEFINE File(p) == [key |-> <<base[r] + 1, current[r], p>>, run |-> r]
    <3>4. files'[r] \subseteq files[r] \cup {File(p) : p \in put[r]}
      BY <1>1, <2>5 DEF MappingDone, ApplyWrites, NextVersion, TypeOK
    <3>5. \A p \in put[r] : /\ objects[File(p).key] = File(p).run
                            /\ File(p).key[1] = base[r] + 1 /\ File(p).key[2] \notin pending[r]
      BY <3>3
    <3> HIDE DEF File
    <3>6. base[r] + 1 <= base[r] + 1
      BY <1>6
    <3>7. \A f \in files'[r] : /\ objects[f.key] = f.run /\ f.key[1] <= base[r] + 1
                               /\ f.key[1] = base[r] + 1 => f.key[2] \notin pending[r]
      BY <1>10, <3>4, <3>5, <3>6
    <3>8. WorkSound'
      BY <1>3, <1>4, <1>7, <1>11, <1>13, <3>1, <3>7 DEF WorkSound
    <3> QED
      BY <3>2, <3>8
  <2> QED
    BY <1>5, <1>8, <1>9, <2>1, <1>12, <2>2, <2>3, <2>4, <2>5 DEF Clauses
<1>14. ~(\E p \in Parts : UploadPart(r, p)) => objects' = objects
  BY DEF store, SkipMapping, StartMapping, MappingDone, UploadFails
<1> QED
  BY <1>12, <1>13, <1>14

\* publish: the manifest lists files that are there, and the pointer flips to
\* it only once it is stored.
LEMMA PublishStep ==
    ASSUME StoreInv, NEW r \in Runs, PutManifest(r) \/ PutPointer(r)
    PROVE  Clauses'
<1> USE DEF Goto, NextVersion
<1>1. TypeOK /\ Clauses
  BY DEF StoreInv, Clauses
<1>2. /\ pc[r] \in {"map", "flip"} /\ pc'[r] \in {"flip", "list"}
      /\ \A q \in Runs : q # r => pc'[q] = pc[q]
      /\ UNCHANGED <<objects, locals>>
  BY <1>1 DEF PutManifest, PutPointer, TypeOK
<1>3. \A q \in Runs : q # r => pc[q] \in {"new", "ended"}
  BY <1>1, <1>2, Alone DEF Clauses
<1>4. OneRun' /\ UploadSound' /\ VacuumSound'
  BY <1>2, <1>3 DEF OneRun, Ended, UploadSound, VacuumSound
<1>5. WorkSound'
  BY <1>1, <1>2, <1>3 DEF Clauses, WorkSound, locals
<1>6. base[r] = pointer /\ pointer < MaxVersion /\ pointer \in Nat /\ pointer + 1 \in Versions
  BY <1>1, <1>2, WarehouseAssumption DEF Clauses, BaseCurrent, TypeOK, Versions
<1>7. base'[r] = pointer
  BY <1>2, <1>6 DEF locals
<1>8. \A v \in Versions : v \in Nat
  BY WarehouseAssumption DEF Versions
<1>9. CASE PutManifest(r)
  <2>1. pc[r] = "map" /\ pc'[r] = "flip" /\ pointer' = pointer
    BY <1>1, <1>9 DEF PutManifest, TypeOK
  <2>2. manifests'[pointer + 1] = files[r] /\ stored' = stored \cup {pointer + 1}
    BY <1>1, <1>6, <1>9 DEF PutManifest, TypeOK
  <2>3. \A v \in Versions : v <= pointer => manifests'[v] = manifests[v]
    <3>1. \A v \in Versions : v <= pointer => v # pointer + 1
      BY <1>6, <1>8
    <3> QED
      BY <1>1, <1>6, <1>9, <3>1 DEF PutManifest, TypeOK
  <2>4. BaseCurrent'
    BY <1>2, <1>3, <1>6, <1>7, <2>1 DEF BaseCurrent
  <2>5. KeysBounded' /\ RetainedReadable'
    BY <1>1, <1>2, <2>1, <2>2, <2>3 DEF Clauses, KeysBounded, RetainedReadable, Readable
  <2>6. \A f \in files[r] : objects[f.key] = f.run /\ f.key[1] <= pointer + 1
    BY <1>1, <1>6, <2>1 DEF Clauses, WorkSound
  <2>7. FlipSound'
    BY <1>2, <1>3, <1>7, <2>2, <2>6 DEF FlipSound, Readable
  <2> QED
    BY <1>4, <1>5, <2>4, <2>5, <2>7 DEF Clauses
<1>10. CASE PutPointer(r)
  <2>1. pc[r] = "flip" /\ pc'[r] = "list" /\ pointer' = pointer + 1
    BY <1>1, <1>6, <1>10 DEF PutPointer, TypeOK
  <2>2. stored' = stored /\ manifests' = manifests
    BY <1>10 DEF PutPointer
  <2>3. BaseCurrent' /\ FlipSound'
    BY <1>2, <1>3, <1>7, <2>1 DEF BaseCurrent, FlipSound
  <2>4. Readable(pointer + 1) /\ \A f \in manifests[pointer + 1] : f.key[1] <= pointer + 1
    BY <1>1, <1>6, <2>1 DEF Clauses, FlipSound
  <2>5. \A v \in Versions : v <= pointer' => v = pointer + 1 \/ v <= pointer
    BY <1>6, <1>8, <2>1
  <2>6. KeysBounded'
    BY <1>1, <2>2, <2>4, <2>5 DEF Clauses, KeysBounded
  <2>7. \A v \in Versions : pointer' - Retain < v => pointer - Retain < v
    BY <1>6, <1>8, <2>1, WarehouseAssumption
  <2>8. \A v \in Versions : Readable(v) => Readable(v)'
    BY <1>2, <2>2 DEF Readable
  <2>9. RetainedReadable'
    BY <1>1, <2>4, <2>5, <2>7, <2>8 DEF Clauses, RetainedReadable
  <2> QED
    BY <1>4, <1>5, <2>3, <2>6, <2>9 DEF Clauses
<1> QED
  BY <1>9, <1>10

\* A vacuum deletes no manifest of the window and no object one lists.
LEMMA VacuumSpares ==
    ASSUME StoreInv, NEW r \in Runs,
           (\E k \in Keys : VacuumObject(r, k)) \/ (\E v \in Versions : VacuumManifest(r, v)),
           NEW w \in Versions, Window(w)
    PROVE  /\ (w \in stored') = (w \in stored) /\ manifests'[w] = manifests[w]
           /\ \A f \in manifests[w] : objects'[f.key] = objects[f.key]
<1>1. TypeOK /\ BaseCurrent /\ VacuumSound
  BY DEF StoreInv
<1>2. pc[r] = "delete"
  BY DEF VacuumObject, VacuumManifest
<1>3. CASE \E k \in Keys : VacuumObject(r, k)
  <2>1. PICK k \in Keys : VacuumObject(r, k)
    BY <1>3
  <2>2. \A f \in manifests[w] : f.key # k /\ f.key \in Keys
    BY <1>1, <1>2, <2>1 DEF VacuumSound, VacuumObject, TypeOK, Files
  <2>3. \A x \in Keys : x # k => objects'[x] = objects[x]
    BY <1>1, <2>1 DEF VacuumObject, TypeOK
  <2> QED
    BY <2>1, <2>2, <2>3 DEF VacuumObject
<1>4. CASE \E v \in Versions : VacuumManifest(r, v)
  <2>1. PICK v \in Versions : VacuumManifest(r, v)
    BY <1>4
  <2>2. v \in Doomed(listed[r], pointer)
    BY <1>1, <1>2, <2>1 DEF BaseCurrent, VacuumManifest, NextVersion
  <2>3. w \notin Doomed(listed[r], pointer)
    <3>1. listed[r] \in SUBSET Versions /\ pointer \in Nat /\ w \in Nat
      BY <1>1, WarehouseAssumption DEF TypeOK, Versions
    <3> QED
      BY <3>1, WindowNotDoomed DEF Window
  <2> QED
    BY <1>1, <2>1, <2>2, <2>3 DEF VacuumManifest, TypeOK
<1> QED
  BY <1>3, <1>4

\* The vacuum keeps every clause.
LEMMA VacuumStep ==
    ASSUME StoreInv, NEW r \in Runs,
           \/ VacuumList(r) \/ VacuumRead(r)
           \/ \E k \in Keys : VacuumObject(r, k)
           \/ \E v \in Versions : VacuumManifest(r, v)
    PROVE  Clauses'
<1> USE DEF Goto
<1>1. TypeOK /\ Clauses
  BY DEF StoreInv, Clauses
<1>2. /\ pc[r] \in {"list", "read", "delete"} /\ pc'[r] \in {"read", "delete"}
      /\ \A q \in Runs : q # r => pc'[q] = pc[q]
      /\ UNCHANGED <<pointer, base, files, pending, current, put>>
  BY <1>1 DEF VacuumList, VacuumRead, VacuumObject, VacuumManifest, TypeOK, store
<1>3. \A q \in Runs : q # r => pc[q] \in {"new", "ended"}
  BY <1>1, <1>2, Alone DEF Clauses
<1>4. OneRun' /\ UploadSound' /\ FlipSound'
  BY <1>2, <1>3 DEF OneRun, Ended, UploadSound, FlipSound
<1>5. BaseCurrent' /\ WorkSound'
  BY <1>1, <1>2, <1>3 DEF Clauses, BaseCurrent, WorkSound
<1>6. \A v \in Versions : manifests'[v] \subseteq manifests[v]
  BY <1>1 DEF VacuumList, VacuumRead, VacuumObject, VacuumManifest, TypeOK, store
<1>7. KeysBounded'
  BY <1>1, <1>2, <1>6 DEF Clauses, KeysBounded
<1>8. base[r] + 1 = pointer
  BY <1>1, <1>2 DEF Clauses, BaseCurrent
<1>9. CASE VacuumList(r) \/ VacuumRead(r)
  <2>1. stored' = stored /\ manifests' = manifests /\ objects' = objects
    BY <1>9 DEF VacuumList, VacuumRead, store
  <2>2. RetainedReadable'
    BY <1>1, <1>2, <2>1 DEF Clauses, RetainedReadable, Readable
  <2>3. CASE VacuumList(r)
    <3>1. pc'[r] = "read" /\ listed'[r] = stored
      BY <1>1, <2>3 DEF VacuumList, TypeOK
    <3>2. VacuumSound'
      BY <1>2, <1>3, <2>1, <3>1 DEF VacuumSound
    <3> QED
      BY <1>4, <1>5, <1>7, <2>2, <3>2 DEF Clauses
  <2>4. CASE VacuumRead(r)
    <3>1. pc[r] = "read" /\ pc'[r] = "delete"
      BY <1>1, <2>4 DEF VacuumRead, TypeOK
    <3>2. targets'[r] = targets[r] \ Referenced(Kept(stored, pointer))
      <4>1. listed[r] = stored
        BY <1>1, <3>1 DEF Clauses, VacuumSound
      <4> QED
        BY <1>1, <1>8, <2>4, <4>1 DEF VacuumRead, Unreferenced, NextVersion, TypeOK
    <3>3. ASSUME NEW v \in Versions, Window(v)
          PROVE  \A f \in manifests[v] : f.key \in Referenced(Kept(stored, pointer))
      <4>1. v \in stored
        BY <1>1, <3>3 DEF Clauses, RetainedReadable, Readable, Window
      <4>2. v \notin Doomed(stored, pointer)
        <5>1. stored \in SUBSET Versions /\ pointer \in Nat /\ v \in Nat
          BY <1>1, WarehouseAssumption DEF TypeOK, Versions
        <5> QED
          BY <3>3, <5>1, WindowNotDoomed DEF Window
      <4>3. v \in Kept(stored, pointer)
        BY <3>3, <4>1, <4>2 DEF Kept, Window
      <4> QED
        BY <4>3 DEF Referenced
    <3>4. VacuumSound'
      <4>1. \A v \in Versions : Window(v)' => \A f \in manifests'[v] : f.key \notin targets'[r]
        BY <1>2, <2>1, <3>2, <3>3 DEF Window
      <4> QED
        BY <1>2, <1>3, <3>1, <4>1 DEF VacuumSound
    <3> QED
      BY <1>4, <1>5, <1>7, <2>2, <3>4 DEF Clauses
  <2> QED
    BY <1>9, <2>3, <2>4
<1>10. CASE (\E k \in Keys : VacuumObject(r, k)) \/ (\E v \in Versions : VacuumManifest(r, v))
  <2>1. \A w \in Versions : Window(w) =>
          /\ (w \in stored') = (w \in stored) /\ manifests'[w] = manifests[w]
          /\ \A f \in manifests[w] : objects'[f.key] = objects[f.key]
    BY <1>10, VacuumSpares
  <2>2. RetainedReadable'
    BY <1>1, <1>2, <2>1 DEF Clauses, RetainedReadable, Readable, Window
  <2>3. pc[r] = "delete" /\ pc'[r] = "delete" /\ targets'[r] \subseteq targets[r]
    BY <1>1, <1>10 DEF VacuumObject, VacuumManifest, TypeOK
  <2>4. VacuumSound'
    <3>1. \A v \in Versions : Window(v) => \A f \in manifests[v] : f.key \notin targets[r]
      BY <1>1, <2>3 DEF Clauses, VacuumSound
    <3>2. \A v \in Versions : Window(v)' => \A f \in manifests'[v] : f.key \notin targets'[r]
      BY <1>2, <2>1, <2>3, <3>1 DEF Window
    <3> QED
      BY <1>2, <1>3, <2>3, <3>2 DEF VacuumSound
  <2> QED
    BY <1>4, <1>5, <1>7, <2>2, <2>4 DEF Clauses
<1> QED
  BY <1>9, <1>10

\* Every step keeps the invariant.
LEMMA StoreStep ==
    ASSUME Overlap = FALSE, PointerFaults = FALSE, StoreInv, [Next]_vars
    PROVE  StoreInv'
<1>1. TypeOK'
  <2>1. TypeInv
    BY DEF StoreInv, TypeInv, BaseCurrent, UploadSound
  <2> QED
    BY <2>1, TypeStep
<1>2. CASE UNCHANGED vars
  BY <1>2 DEF vars, StoreInv, TypeOK, OneRun, Ended, KeysBounded, BaseCurrent, WorkSound, UploadSound,
              FlipSound, VacuumSound, Window, RetainedReadable, Readable
<1>3. CASE Next
  <2>1. PICK r \in Runs :
          \/ Begin(r) \/ ReadPointer(r) \/ ReadManifest(r)
          \/ \E m \in Mappings : SkipMapping(r, m)
          \/ \E m \in Mappings, parts \in SUBSET Parts : StartMapping(r, m, parts)
          \/ \E p \in Parts : UploadPart(r, p)
          \/ MappingDone(r) \/ UploadFails(r) \/ Cancelled(r) \/ Untouched(r)
          \/ PutManifest(r) \/ PutPointer(r)
          \/ VacuumList(r) \/ VacuumRead(r)
          \/ \E k \in Keys : VacuumObject(r, k)
          \/ \E v \in Versions : VacuumManifest(r, v)
          \/ VacuumDone(r) \/ Stop(r)
    BY <1>3, Zenon DEF Next
  <2>2. CASE Untouched(r) \/ VacuumDone(r) \/ Stop(r) \/ Cancelled(r)
    <3>1. ~Ended(r) /\ End(r) /\ UNCHANGED store
      BY <2>2 DEF Untouched, VacuumDone, Stop, Cancelled, Ended
    <3> QED
      BY <1>1, <3>1, EndStep DEF StoreInv, Clauses
  <2>4. CASE Begin(r) \/ ReadPointer(r) \/ ReadManifest(r)
    BY <1>1, <2>4, ReadStep DEF StoreInv, Clauses
  <2>5. CASE \/ \E m \in Mappings : SkipMapping(r, m)
             \/ \E m \in Mappings, parts \in SUBSET Parts : StartMapping(r, m, parts)
             \/ \E p \in Parts : UploadPart(r, p)
             \/ MappingDone(r) \/ UploadFails(r)
    <3>1. Clauses'
      BY <2>5, LoopStep
    <3> QED
      BY <1>1, <3>1 DEF StoreInv, Clauses
  <2>6. CASE PutManifest(r) \/ PutPointer(r)
    BY <1>1, <2>6, PublishStep DEF StoreInv, Clauses
  <2>7. CASE \/ VacuumList(r) \/ VacuumRead(r)
             \/ \E k \in Keys : VacuumObject(r, k)
             \/ \E v \in Versions : VacuumManifest(r, v)
    <3>1. Clauses'
      BY <2>7, VacuumStep
    <3> QED
      BY <1>1, <3>1 DEF StoreInv, Clauses
  <2> QED
    BY <2>1, <2>2, <2>4, <2>5, <2>6, <2>7
<1> QED
  BY <1>2, <1>3

\* What PublishedFrozen says of a step.
Frozen == /\ pointer' >= pointer
          /\ \A v \in Versions : v <= pointer /\ pointer' - Retain < v =>
                /\ (v \in stored) = (v \in stored') /\ manifests'[v] = manifests[v]
                /\ \A f \in manifests[v] : objects'[f.key] = objects[f.key]

\* No step changes a retained version.
LEMMA FrozenStep ==
    ASSUME StoreInv, [Next]_vars
    PROVE  Frozen
<1>1. TypeOK /\ BaseCurrent /\ pointer \in Int
  BY DEF StoreInv, TypeOK
<1>2. CASE UNCHANGED store
  BY <1>1, <1>2 DEF store, Frozen
<1>3. ASSUME NEW r \in Runs, NEW p \in Parts, UploadPart(r, p) PROVE Frozen
  <2>1. pointer' = pointer /\ stored' = stored /\ manifests' = manifests
    BY <1>3 DEF UploadPart
  <2>2. \A v \in Versions : v <= pointer => \A f \in manifests[v] : objects'[f.key] = objects[f.key]
    BY <1>3, UploadFresh
  <2> QED
    BY <1>1, <2>1, <2>2 DEF Frozen
<1>4. ASSUME NEW r \in Runs, PutManifest(r) PROVE Frozen
  <2>1. base[r] + 1 = pointer + 1 /\ pointer' = pointer /\ objects' = objects
    BY <1>1, <1>4 DEF PutManifest, BaseCurrent
  <2>2. \A v \in Versions : v <= pointer => v # base[r] + 1
    BY <1>1, <2>1, WarehouseAssumption DEF Versions
  <2>3. \A v \in Versions : v <= pointer =>
          (v \in stored) = (v \in stored') /\ manifests'[v] = manifests[v]
    BY <1>1, <1>4, <2>2 DEF PutManifest, NextVersion, TypeOK
  <2> QED
    BY <1>1, <2>1, <2>3 DEF Frozen
<1>5. ASSUME NEW r \in Runs, PutPointer(r) PROVE Frozen
  <2>1. pointer' = pointer + 1 /\ stored' = stored /\ manifests' = manifests /\ objects' = objects
    BY <1>1, <1>5 DEF PutPointer, BaseCurrent, NextVersion
  <2> QED
    BY <1>1, <2>1 DEF Frozen
<1>6. ASSUME NEW r \in Runs,
             (\E k \in Keys : VacuumObject(r, k)) \/ (\E v \in Versions : VacuumManifest(r, v))
      PROVE  Frozen
  <2>1. pointer' = pointer
    BY <1>6 DEF VacuumObject, VacuumManifest
  <2>2. \A w \in Versions : Window(w) =>
          /\ (w \in stored') = (w \in stored) /\ manifests'[w] = manifests[w]
          /\ \A f \in manifests[w] : objects'[f.key] = objects[f.key]
    BY <1>6, VacuumSpares
  <2> QED
    BY <1>1, <2>1, <2>2 DEF Frozen, Window
<1>7. ASSUME NEW r \in Runs,
             \/ Begin(r) \/ ReadPointer(r) \/ ReadManifest(r)
             \/ \E m \in Mappings : SkipMapping(r, m)
             \/ \E m \in Mappings, parts \in SUBSET Parts : StartMapping(r, m, parts)
             \/ MappingDone(r) \/ UploadFails(r) \/ Untouched(r)
             \/ VacuumList(r) \/ VacuumRead(r) \/ VacuumDone(r) \/ Stop(r) \/ Cancelled(r)
      PROVE  UNCHANGED store
  BY <1>7 DEF store, Begin, ReadPointer, ReadManifest, SkipMapping, StartMapping, MappingDone,
     UploadFails, Untouched, VacuumList, VacuumRead, VacuumDone, Stop, Cancelled
<1>8. CASE UNCHANGED vars
  BY <1>2, <1>8 DEF vars, store
<1> QED
  BY <1>2, <1>3, <1>4, <1>5, <1>6, <1>7, <1>8 DEF Next

-----------------------------------------------------------------------------
(* A list of files takes those of a mapping from one run, whether or not    *)
(* runs overlap and the pointer can be read.                                *)

\* No list of files mixes files listed by two runs for one mapping.
Whole(list) == \A f, g \in list : MappingOf(f) = MappingOf(g) => f.run = g.run

WholeInv == /\ TypeInv
            /\ \A v \in Versions : Whole(manifests[v])
            /\ \A r \in Runs : Whole(files[r])

\* apply_mapping_writes keeps a list whole when what it adds is a mapping's
\* files of one run.
LEMMA WritesWhole ==
    ASSUME NEW old, Whole(old), NEW m, NEW new, NEW q,
           \A f \in new : MappingOf(f) = m /\ f.run = q
    PROVE  Whole(ApplyWrites(old, m, new))
  BY DEF Whole, ApplyWrites

\* Every step keeps manifests and gathered files whole.
LEMMA WholeStep == WholeInv /\ [Next]_vars => WholeInv'
<1> SUFFICES ASSUME WholeInv, [Next]_vars PROVE WholeInv'
  OBVIOUS
<1> USE DEF Goto, store, locals
<1>1. TypeInv /\ TypeOK /\ TypeInv'
  BY TypeInvStep DEF WholeInv, TypeInv
<1>2. Whole({})
  BY DEF Whole
<1>3. \A v \in Versions : Whole(manifests[v])
  BY DEF WholeInv
<1>4. \A r \in Runs : Whole(files[r])
  BY DEF WholeInv
<1>5. CASE manifests' = manifests /\ files' = files
  BY <1>1, <1>3, <1>4, <1>5 DEF WholeInv
<1>6. ASSUME NEW r \in Runs, ReadManifest(r) PROVE WholeInv'
  <2>1. Whole(files'[r])
    <3>1. base[r] \in Versions
      BY <1>1, <1>6 DEF ReadManifest, TypeOK
    <3>2. files'[r] = {} \/ files'[r] = manifests[base[r]]
      BY <1>1, <1>6 DEF ReadManifest, StartFiles, TypeOK
    <3> QED
      BY <1>2, <1>3, <3>1, <3>2
  <2>2. manifests' = manifests /\ \A q \in Runs : q # r => files'[q] = files[q]
    BY <1>1, <1>6 DEF ReadManifest, TypeOK
  <2> QED
    BY <1>1, <1>3, <1>4, <2>1, <2>2 DEF WholeInv
<1>7. ASSUME NEW r \in Runs, MappingDone(r) PROVE WholeInv'
  <2> DEFINE new == {[key |-> <<NextVersion(r), current[r], p>>, run |-> r] : p \in put[r]}
  <2>1. \A f \in new : MappingOf(f) = current[r] /\ f.run = r
    BY DEF MappingOf
  <2>2. files'[r] = ApplyWrites(files[r], current[r], new)
    BY <1>1, <1>7 DEF MappingDone, TypeOK
  <2>3. manifests' = manifests /\ \A q \in Runs : q # r => files'[q] = files[q]
    BY <1>1, <1>7 DEF MappingDone, TypeOK
  <2> HIDE DEF new
  <2>4. Whole(files'[r])
    BY <1>4, <2>1, <2>2, WritesWhole
  <2> QED
    BY <1>1, <1>3, <1>4, <2>3, <2>4 DEF WholeInv
<1>8. ASSUME NEW r \in Runs, PutManifest(r) PROVE WholeInv'
  <2>1. \A v \in Versions : manifests'[v] = manifests[v] \/ manifests'[v] = files[r]
    BY <1>1, <1>8 DEF PutManifest, TypeOK
  <2>2. files' = files
    BY <1>8 DEF PutManifest
  <2> QED
    BY <1>1, <1>3, <1>4, <2>1, <2>2 DEF WholeInv
<1>9. ASSUME NEW r \in Runs, NEW v \in Versions, VacuumManifest(r, v) PROVE WholeInv'
  <2>1. \A w \in Versions : manifests'[w] = manifests[w] \/ manifests'[w] = {}
    BY <1>1, <1>9 DEF VacuumManifest, TypeOK
  <2>2. files' = files
    BY <1>9 DEF VacuumManifest
  <2> QED
    BY <1>1, <1>2, <1>3, <1>4, <2>1, <2>2 DEF WholeInv
<1>10. ASSUME NEW r \in Runs, Untouched(r) \/ VacuumDone(r) \/ Stop(r) \/ Cancelled(r)
       PROVE  WholeInv'
  <2>1. End(r) /\ manifests' = manifests
    BY <1>10 DEF Untouched, VacuumDone, Stop, Cancelled
  <2>2. \A q \in Runs : files'[q] = files[q] \/ files'[q] = {}
    BY <1>1, <2>1 DEF End, TypeOK
  <2> QED
    BY <1>1, <1>2, <1>3, <1>4, <2>1, <2>2 DEF WholeInv
<1>11. ASSUME NEW r \in Runs,
              \/ Begin(r) \/ ReadPointer(r)
              \/ \E m \in Mappings : SkipMapping(r, m)
              \/ \E m \in Mappings, parts \in SUBSET Parts : StartMapping(r, m, parts)
              \/ \E p \in Parts : UploadPart(r, p)
              \/ UploadFails(r) \/ PutPointer(r) \/ VacuumList(r) \/ VacuumRead(r)
              \/ \E k \in Keys : VacuumObject(r, k)
       PROVE  manifests' = manifests /\ files' = files
  BY <1>11 DEF Begin, ReadPointer, SkipMapping, StartMapping, UploadPart, UploadFails, PutPointer,
     VacuumList, VacuumRead, VacuumObject
<1>12. CASE UNCHANGED vars
  BY <1>5, <1>12 DEF vars
<1> QED
  BY <1>5, <1>6, <1>7, <1>8, <1>9, <1>10, <1>11, <1>12 DEF Next

-----------------------------------------------------------------------------
(* A mapping that failed keeps its files.                                   *)

Of(list, m) == {f \in list : MappingOf(f) = m}

\* What a run that is not clean has gathered for the mappings it has not
\* written is what the version it started from lists.
KeepSound ==
    \A r \in Runs : r \notin clean /\ base[r] > 0 =>
        /\ pc[r] \in {"map", "upload"} =>
             \A m \in Mappings \ wrote[r] : Of(files[r], m) = Of(manifests[base[r]], m)
        /\ pc[r] = "flip" =>
             \A m \in Mappings \ wrote[r] : Of(manifests[base[r] + 1], m) = Of(manifests[base[r]], m)

\* What the step that flips the pointer preserves.
KeptFiles ==
    \A r \in Runs : PutPointer(r) /\ pointer > 0 /\ r \notin clean =>
        \A m \in Mappings \ wrote[r] : FilesOf(pointer', m) = FilesOf(pointer, m)

\* A mapping's writes leave the other mappings' files alone.
LEMMA WritesOthers ==
    ASSUME NEW old, NEW m, NEW new, \A f \in new : MappingOf(f) = m, NEW other, other # m
    PROVE  Of(ApplyWrites(old, m, new), other) = Of(old, other)
<1>1. \A f : f \in Of(ApplyWrites(old, m, new), other) <=> f \in Of(old, other)
  BY DEF Of, ApplyWrites
<1> QED
  BY <1>1

\* Every step keeps it.
LEMMA KeepStep ==
    ASSUME Overlap = FALSE, PointerFaults = FALSE, StoreInv, KeepSound, [Next]_vars
    PROVE  KeepSound'
<1> USE DEF Goto
<1>1. TypeOK /\ OneRun /\ BaseCurrent /\ pointer \in Nat
  BY DEF StoreInv, TypeOK
<1> DEFINE
      Carries(q) == q \notin clean /\ base[q] > 0 =>
        /\ pc[q] \in {"map", "upload"} =>
             \A m \in Mappings \ wrote[q] : Of(files[q], m) = Of(manifests[base[q]], m)
        /\ pc[q] = "flip" =>
             \A m \in Mappings \ wrote[q] : Of(manifests[base[q] + 1], m) = Of(manifests[base[q]], m)
<1>2. \A q \in Runs : Carries(q)
  BY DEF KeepSound
<1>3. ASSUME NEW r \in Runs, pc[r] \notin {"new", "ended"},
             \A q \in Runs : q # r => pc'[q] = pc[q],
             pc'[r] \notin {"map", "upload", "flip"}
      PROVE  KeepSound'
  <2>1. \A q \in Runs : pc'[q] \notin {"map", "upload", "flip"}
    BY <1>1, <1>3, Alone
  <2> QED
    BY <2>1 DEF KeepSound
<1>4. ASSUME NEW r \in Runs, pc[r] \notin {"new", "ended"},
             \A q \in Runs : q # r => pc'[q] = pc[q],
             Carries(r)'
      PROVE  KeepSound'
  <2>1. \A q \in Runs : q # r => pc'[q] \in {"new", "ended"}
    BY <1>1, <1>4, Alone
  <2> QED
    BY <1>4, <2>1 DEF KeepSound
<1>5. ASSUME NEW r \in Runs, Begin(r) PROVE KeepSound'
  <2>1. \A q \in Runs : pc'[q] \notin {"map", "upload", "flip"}
    BY <1>1, <1>5 DEF Begin, Ended, TypeOK
  <2> QED
    BY <2>1 DEF KeepSound
<1>6. ASSUME NEW r \in Runs, ReadPointer(r) PROVE KeepSound'
  <2>1. pc[r] = "pointer" /\ \A q \in Runs : q # r => pc'[q] = pc[q]
    BY <1>1, <1>6 DEF ReadPointer, TypeOK
  <2>2. base'[r] = 0 \/ pc'[r] = "manifest"
    BY <1>1, <1>6 DEF ReadPointer, TypeOK
  <2>3. Carries(r)'
    BY <2>2
  <2> QED
    BY <1>4, <2>1, <2>3
<1>7. ASSUME NEW r \in Runs, ReadManifest(r) PROVE KeepSound'
  <2>1. pc[r] = "manifest" /\ pc'[r] = "map" /\ \A q \in Runs : q # r => pc'[q] = pc[q]
    BY <1>1, <1>7 DEF ReadManifest, TypeOK
  <2>2. r \notin clean' => files'[r] = manifests'[base'[r]]
    BY <1>1, <1>7 DEF ReadManifest, StartFiles, TypeOK, store, flags
  <2>3. Carries(r)'
    BY <2>1, <2>2
  <2> QED
    BY <1>4, <2>1, <2>3
<1>8. ASSUME NEW r \in Runs,
             \/ \E m \in Mappings : SkipMapping(r, m)
             \/ \E m \in Mappings, parts \in SUBSET Parts : StartMapping(r, m, parts)
             \/ \E p \in Parts : UploadPart(r, p)
             \/ UploadFails(r)
      PROVE  KeepSound'
  <2>1. /\ pc[r] \in {"map", "upload"} /\ pc'[r] \in {"map", "upload"}
        /\ \A q \in Runs : q # r => pc'[q] = pc[q]
    BY <1>1, <1>8 DEF SkipMapping, StartMapping, UploadPart, UploadFails, LeaveMapping, TypeOK
  <2>2. UNCHANGED <<clean, base, wrote, files, manifests>>
    BY <1>8 DEF SkipMapping, StartMapping, UploadPart, UploadFails, flags, store
  <2>3. Carries(r)'
    BY <1>2, <2>1, <2>2
  <2> QED
    BY <1>4, <2>1, <2>3
<1>9. ASSUME NEW r \in Runs, MappingDone(r) PROVE KeepSound'
  <2> DEFINE new == {[key |-> <<NextVersion(r), current[r], p>>, run |-> r] : p \in put[r]}
  <2>1. pc[r] = "upload" /\ pc'[r] = "map" /\ \A q \in Runs : q # r => pc'[q] = pc[q]
    BY <1>1, <1>9 DEF MappingDone, LeaveMapping, TypeOK
  <2>2. UNCHANGED <<clean, base, manifests>> /\ wrote'[r] = wrote[r] \cup {current[r]}
    BY <1>1, <1>9 DEF MappingDone, flags, store, TypeOK
  <2>3. files'[r] = ApplyWrites(files[r], current[r], new)
    BY <1>1, <1>9 DEF MappingDone, TypeOK
  <2>4. \A f \in new : MappingOf(f) = current[r]
    BY DEF MappingOf
  <2> HIDE DEF new
  <2>5. \A m \in Mappings \ wrote'[r] : Of(files'[r], m) = Of(files[r], m)
    BY <2>2, <2>3, <2>4, WritesOthers
  <2>6. Carries(r)'
    BY <1>2, <2>1, <2>2, <2>5
  <2> QED
    BY <1>4, <2>1, <2>6
<1>10. ASSUME NEW r \in Runs, PutManifest(r) PROVE KeepSound'
  <2>1. pc[r] = "map" /\ pc'[r] = "flip" /\ \A q \in Runs : q # r => pc'[q] = pc[q]
    BY <1>1, <1>10 DEF PutManifest, TypeOK
  <2>2. UNCHANGED <<clean, base, wrote>>
    BY <1>10 DEF PutManifest, flags, locals
  <2>3. base[r] + 1 \in Versions
    BY <1>1, <2>1, WarehouseAssumption DEF BaseCurrent, Versions
  <2>4. manifests'[base[r] + 1] = files[r] /\ manifests'[base[r]] = manifests[base[r]]
    <3>1. base[r] # base[r] + 1
      BY <1>1, <2>1 DEF BaseCurrent
    <3>2. manifests' = [manifests EXCEPT ![base[r] + 1] = files[r]]
      BY <1>10 DEF PutManifest, NextVersion
    <3>3. manifests'[base[r] + 1] = files[r]
      BY <1>1, <2>3, <3>2 DEF TypeOK
    <3> HIDE DEF Carries
    <3> QED
      BY <1>1, <3>1, <3>2, <3>3 DEF TypeOK
  <2>5. Carries(r)'
    BY <1>2, <2>1, <2>2, <2>4
  <2> QED
    BY <1>4, <2>1, <2>5
<1>11. ASSUME NEW r \in Runs,
             \/ PutPointer(r) \/ VacuumList(r) \/ VacuumRead(r)
             \/ \E k \in Keys : VacuumObject(r, k)
             \/ \E v \in Versions : VacuumManifest(r, v)
      PROVE  KeepSound'
  <2>1. /\ pc[r] \notin {"new", "ended"} /\ pc'[r] \notin {"map", "upload", "flip"}
        /\ \A q \in Runs : q # r => pc'[q] = pc[q]
    BY <1>1, <1>11 DEF PutPointer, VacuumList, VacuumRead, VacuumObject, VacuumManifest, TypeOK
  <2> QED
    BY <1>3, <2>1
<1>12. ASSUME NEW r \in Runs, Untouched(r) \/ VacuumDone(r) \/ Stop(r) \/ Cancelled(r)
       PROVE  KeepSound'
  <2>1. ~Ended(r) /\ End(r)
    BY <1>12 DEF Untouched, VacuumDone, Stop, Cancelled, Ended
  <2>2. /\ pc[r] \notin {"new", "ended"} /\ pc'[r] = "ended"
        /\ \A q \in Runs : q # r => pc'[q] = pc[q]
    BY <1>1, <2>1 DEF Ended, End, TypeOK
  <2> QED
    BY <1>3, <2>2
<1>13. ASSUME UNCHANGED <<clean, base, pc, wrote, files, manifests>> PROVE KeepSound'
  BY <1>13 DEF KeepSound
<1>14. UNCHANGED vars => UNCHANGED <<clean, base, pc, wrote, files, manifests>>
  BY DEF vars
<1> HIDE DEF Carries
<1> QED
  BY <1>5, <1>6, <1>7, <1>8, <1>9, <1>10, <1>11, <1>12, <1>13, <1>14 DEF Next

\* The pointer flips to a version that lists what the last one did for them.
LEMMA KeptFilesStep ==
    ASSUME StoreInv, KeepSound, Next
    PROVE  KeptFiles
<1> SUFFICES ASSUME NEW r \in Runs, PutPointer(r), pointer > 0, r \notin clean,
                    NEW m \in Mappings \ wrote[r]
             PROVE  FilesOf(pointer', m) = FilesOf(pointer, m)
  BY DEF KeptFiles
<1>1. pc[r] = "flip" /\ base[r] = pointer /\ pointer' = pointer + 1
  BY DEF PutPointer, NextVersion, StoreInv, BaseCurrent
<1>2. Of(manifests[base[r] + 1], m) = Of(manifests[base[r]], m)
  BY <1>1 DEF KeepSound
<1> QED
  BY <1>1, <1>2 DEF FilesOf, Of

-----------------------------------------------------------------------------
(* The vacuum collects what no retained version lists.                      *)

\* A version of the window lists the object.
Listed(k) == \E v \in Versions : Window(v) /\ \E f \in manifests[v] : f.key = k

\* A vacuum that has listed the objects has them all; once it has read the
\* manifests it has all but those a version of the window lists and those it
\* has failed to delete.
CollectSound ==
    \A r \in Runs :
        /\ pc[r] = "read" => \A k \in Keys : objects[k] # None => k \in targets[r]
        /\ pc[r] = "delete" =>
             \A k \in Keys : objects[k] # None => k \in targets[r] \cup undeleted[r] \/ Listed(k)

\* The versions of the window have manifests.
WindowStored == \A v \in Versions : Window(v) => v \in stored

\* A run publishes the version after the current one or, misled by the pointer's
\* GET, the first one, and vacuums what it has published.
VacuumBase ==
    \A r \in Runs :
        /\ pc[r] \in {"manifest", "map", "upload", "flip"} => base[r] \in {0, pointer}
        /\ pc[r] = "flip" => base[r] + 1 \in stored
        /\ pc[r] \in {"list", "read", "delete"} => base[r] + 1 = pointer
        /\ pc[r] = "read" => listed[r] = stored

WindowInv == TypeInv /\ OneRun /\ WindowStored /\ VacuumBase

\* What the step that ends a vacuum has achieved.
Collected ==
    \A r \in Runs : VacuumDone(r) =>
        \A k \in Keys : objects[k] # None /\ k \notin undeleted[r] =>
            \E v \in Versions : /\ pointer - Retain < v /\ v <= pointer
                                /\ \E f \in manifests[v] : f.key = k

\* versions_to_drop drops every version below the window when those of the
\* window are there: Retain of them lie between it and the current one.
LEMMA BelowDoomed ==
    ASSUME NEW S \in SUBSET Versions, NEW cur \in Versions,
           \A w \in Versions : cur - Retain < w /\ w <= cur => w \in S,
           NEW v \in S, v <= cur - Retain
    PROVE  v \in Doomed(S, cur)
<1> DEFINE Above == {w \in S : v < w /\ w <= cur}
           Last == (cur - Retain + 1) .. cur
<1>1. v \in Int /\ 1 <= v /\ cur \in Int /\ cur <= MaxVersion /\ Retain \in Int /\ 0 < Retain
  BY WarehouseAssumption DEF Versions
<1>2. IsFiniteSet(Last) /\ Cardinality(Last) = Retain
  <2>1. cur - Retain + 1 \in Int /\ cur - Retain + 1 <= cur
    BY <1>1
  <2>2. /\ IsFiniteSet(Last)
        /\ Cardinality(Last) = IF cur - Retain + 1 > cur THEN 0 ELSE cur - (cur - Retain + 1) + 1
    BY <1>1, <2>1, FS_Interval
  <2> QED
    BY <1>1, <2>1, <2>2
<1>3. Last \subseteq Above
  <2>1. ASSUME NEW w \in Last PROVE w \in Above
    <3>1. w \in Int /\ cur - Retain < w /\ w <= cur /\ v < w
      BY <1>1
    <3>2. w \in Versions
      BY <1>1, <3>1, WarehouseAssumption DEF Versions
    <3> QED
      BY <3>1, <3>2
  <2> QED
    BY <2>1
<1>4. IsFiniteSet(Above)
  <2>1. IsFiniteSet(1 .. MaxVersion)
    BY WarehouseAssumption, FS_Interval
  <2>2. Above \subseteq 1 .. MaxVersion
    BY DEF Versions
  <2> QED
    BY <2>1, <2>2, FS_Subset
<1>5. Retain <= Cardinality(Above)
  <2>1. Cardinality(Last) <= Cardinality(Above)
    <3> HIDE DEF Above, Last
    <3> QED
      BY <1>3, <1>4, FS_Subset
  <2> QED
    BY <1>2, <2>1
<1>6. Cardinality(Above) \in Nat
  BY <1>4, FS_CardinalityType
<1>7. v <= cur
  BY <1>1
<1> HIDE DEF Above, Last
<1>8. Cardinality(Above) >= Retain
  BY <1>1, <1>5, <1>6
<1> QED
  BY <1>7, <1>8 DEF Doomed, Above

\* So the manifests the vacuum reads are those of the window.
LEMMA KeptWindow ==
    ASSUME TypeOK, WindowStored, pointer \in Versions, NEW v \in Kept(stored, pointer)
    PROVE  v \in Versions /\ Window(v)
<1>1. v \in stored /\ v <= pointer /\ v \notin Doomed(stored, pointer)
  BY DEF Kept
<1>2. stored \in SUBSET Versions
  BY DEF TypeOK
<1>3. \A w \in Versions : pointer - Retain < w /\ w <= pointer => w \in stored
  BY DEF WindowStored, Window
<1>4. ~(v <= pointer - Retain)
  BY <1>1, <1>2, <1>3, BelowDoomed
<1>5. v \in Int /\ pointer \in Int /\ Retain \in Int
  BY <1>1, <1>2, WarehouseAssumption DEF Versions
<1> QED
  BY <1>1, <1>2, <1>4, <1>5 DEF Window

\* The manifest a vacuum deletes is of no version of the window.
LEMMA DoomedOutside ==
    ASSUME WindowInv, NEW r \in Runs, NEW v \in Versions, VacuumManifest(r, v)
    PROVE  ~Window(v)
<1>1. v \in Doomed(listed[r], pointer)
  BY DEF WindowInv, VacuumBase, VacuumManifest, NextVersion
<1>2. listed[r] \in SUBSET Versions /\ pointer \in Nat /\ v \in Nat
  BY WarehouseAssumption DEF WindowInv, TypeInv, TypeOK, Versions
<1> QED
  BY <1>1, <1>2, WindowNotDoomed DEF Window

\* Every step keeps WindowInv, whatever the pointer's GET returns.
LEMMA WindowStep ==
    ASSUME Overlap = FALSE, WindowInv, [Next]_vars
    PROVE  WindowInv'
<1> USE DEF Goto
<1> DEFINE Goal == OneRun' /\ WindowStored' /\ VacuumBase'
<1>1. TypeOK /\ OneRun /\ pointer \in Nat /\ TypeInv'
  BY TypeInvStep DEF WindowInv, TypeInv, TypeOK
<1>2. ASSUME NEW r \in Runs, pc[r] \notin {"new", "ended"},
             \A q \in Runs : q # r => pc'[q] = pc[q],
             WindowStored',
             /\ pc'[r] \in {"manifest", "map", "upload", "flip"} => base'[r] \in {0, pointer'}
             /\ pc'[r] = "flip" => base'[r] + 1 \in stored'
             /\ pc'[r] \in {"list", "read", "delete"} => base'[r] + 1 = pointer'
             /\ pc'[r] = "read" => listed'[r] = stored'
      PROVE  Goal
  <2>1. \A q \in Runs : q # r => pc'[q] \in {"new", "ended"}
    BY <1>1, <1>2, Alone
  <2>2. VacuumBase'
    BY <1>2, <2>1 DEF VacuumBase
  <2>3. OneRun'
    BY <2>1 DEF OneRun, Ended
  <2> QED
    BY <1>2, <2>2, <2>3
<1>3. ASSUME UNCHANGED <<pc, store, base, listed>> PROVE Goal
  BY <1>3 DEF WindowInv, OneRun, Ended, WindowStored, Window, VacuumBase, store
<1>4. ASSUME NEW r \in Runs, Begin(r) PROVE Goal
  <2>1. /\ \A q \in Runs : Ended(q)
        /\ pc'[r] = "pointer" /\ \A q \in Runs : q # r => pc'[q] = pc[q]
        /\ UNCHANGED store
    BY <1>1, <1>4 DEF Begin, TypeOK
  <2>2. OneRun' /\ VacuumBase'
    BY <2>1 DEF OneRun, Ended, VacuumBase
  <2> QED
    BY <2>1, <2>2 DEF WindowInv, WindowStored, Window, store
<1>5. ASSUME NEW r \in Runs, ReadPointer(r) PROVE Goal
  <2>1. /\ pc[r] = "pointer" /\ pc'[r] \in {"map", "manifest"} /\ base'[r] \in {0, pointer}
        /\ \A q \in Runs : q # r => pc'[q] = pc[q]
        /\ UNCHANGED store
    BY <1>1, <1>5 DEF ReadPointer, TypeOK
  <2> QED
    BY <1>2, <2>1 DEF WindowInv, WindowStored, Window, store
<1>6. ASSUME NEW r \in Runs,
             \/ ReadManifest(r)
             \/ \E m \in Mappings : SkipMapping(r, m)
             \/ \E m \in Mappings, parts \in SUBSET Parts : StartMapping(r, m, parts)
             \/ \E p \in Parts : UploadPart(r, p)
             \/ MappingDone(r) \/ UploadFails(r)
      PROVE  Goal
  <2>1. /\ pc[r] \in {"manifest", "map", "upload"} /\ pc'[r] \in {"map", "upload"}
        /\ \A q \in Runs : q # r => pc'[q] = pc[q]
        /\ UNCHANGED <<pointer, stored, base>>
    BY <1>1, <1>6 DEF ReadManifest, SkipMapping, StartMapping, UploadPart, MappingDone,
       UploadFails, LeaveMapping, TypeOK, store
  <2> QED
    BY <1>2, <2>1 DEF WindowInv, WindowStored, Window, VacuumBase
<1>7. ASSUME NEW r \in Runs, PutManifest(r) PROVE Goal
  <2>1. /\ pc[r] = "map" /\ pc'[r] = "flip"
        /\ \A q \in Runs : q # r => pc'[q] = pc[q]
        /\ UNCHANGED <<pointer, base>> /\ stored' = stored \cup {base[r] + 1}
    BY <1>1, <1>7 DEF PutManifest, NextVersion, TypeOK, locals
  <2> QED
    BY <1>2, <2>1 DEF WindowInv, WindowStored, Window, VacuumBase
<1>8. ASSUME NEW r \in Runs, PutPointer(r) PROVE Goal
  <2>1. /\ pc[r] = "flip" /\ pc'[r] = "list"
        /\ \A q \in Runs : q # r => pc'[q] = pc[q]
        /\ UNCHANGED <<stored, base>> /\ pointer' = base[r] + 1
    BY <1>1, <1>8 DEF PutPointer, NextVersion, TypeOK, locals
  <2>2. base[r] \in {0, pointer} /\ base[r] + 1 \in stored
    BY <2>1 DEF WindowInv, VacuumBase
  <2>3. WindowStored'
    <3>1. ASSUME NEW v \in Versions, base[r] + 1 - Retain < v, v <= base[r] + 1
          PROVE  v \in stored
      <4>1. v \in Nat \ {0} /\ Retain \in Nat
        BY WarehouseAssumption DEF Versions
      <4>2. CASE v = base[r] + 1
        BY <2>2, <4>2
      <4>3. CASE v # base[r] + 1
        <5>1. base[r] = pointer /\ v <= pointer /\ pointer - Retain < v
          BY <1>1, <2>2, <3>1, <4>1, <4>3
        <5> QED
          BY <5>1 DEF WindowInv, WindowStored, Window
      <4> QED
        BY <4>2, <4>3
    <3> SUFFICES ASSUME NEW v \in Versions, Window(v)' PROVE v \in stored'
      BY DEF WindowStored
    <3>2. base[r] + 1 - Retain < v /\ v <= base[r] + 1
      <4>1. pointer' = base[r] + 1
        BY <2>1
      <4>2. pointer' - Retain < v /\ v <= pointer'
        BY DEF Window
      <4>3. base[r] \in Nat /\ v \in Nat /\ Retain \in Nat
        BY <1>1, WarehouseAssumption DEF TypeOK, Versions
      <4> QED
        BY <4>1, <4>2, <4>3
    <3> QED
      BY <2>1, <3>1, <3>2
  <2> QED
    BY <1>2, <2>1, <2>3
<1>9. ASSUME NEW r \in Runs,
             VacuumList(r) \/ VacuumRead(r) \/ \E k \in Keys : VacuumObject(r, k)
      PROVE  Goal
  <2>1. /\ pc[r] \in {"list", "read", "delete"} /\ pc'[r] \in {"read", "delete"}
        /\ pc'[r] = "read" => listed'[r] = stored
        /\ \A q \in Runs : q # r => pc'[q] = pc[q]
        /\ UNCHANGED <<pointer, stored, base>>
    BY <1>1, <1>9 DEF VacuumList, VacuumRead, VacuumObject, TypeOK, store
  <2> QED
    BY <1>2, <2>1 DEF WindowInv, WindowStored, Window, VacuumBase
<1>10. ASSUME NEW r \in Runs, NEW v \in Versions, VacuumManifest(r, v) PROVE Goal
  <2>1. /\ pc[r] = "delete" /\ pc' = pc
        /\ UNCHANGED <<pointer, base>> /\ stored \ {v} \subseteq stored'
    BY <1>10 DEF VacuumManifest
  <2>2. ~Window(v)
    BY <1>10, DoomedOutside
  <2>3. WindowStored'
    BY <2>1, <2>2 DEF WindowInv, WindowStored, Window
  <2> QED
    BY <1>2, <2>1, <2>3 DEF WindowInv, VacuumBase
<1>11. ASSUME NEW r \in Runs, Untouched(r) \/ VacuumDone(r) \/ Stop(r) \/ Cancelled(r)
       PROVE  Goal
  <2>1. ~Ended(r) /\ End(r) /\ UNCHANGED store
    BY <1>11 DEF Untouched, VacuumDone, Stop, Cancelled, Ended
  <2>2. /\ pc[r] \notin {"new", "ended"} /\ pc'[r] = "ended"
        /\ \A q \in Runs : q # r => pc'[q] = pc[q]
    BY <1>1, <2>1 DEF Ended, End, TypeOK
  <2> QED
    BY <1>2, <2>1, <2>2 DEF WindowInv, WindowStored, Window, store
<1>12. UNCHANGED vars => UNCHANGED <<pc, store, base, listed>>
  BY DEF vars, store, locals
<1>13. Goal
  BY <1>3, <1>4, <1>5, <1>6, <1>7, <1>8, <1>9, <1>10, <1>11, <1>12 DEF Next
<1> QED
  BY <1>1, <1>13 DEF WindowInv

\* Every step keeps it.
LEMMA CollectStep ==
    ASSUME Overlap = FALSE, WindowInv, CollectSound, [Next]_vars
    PROVE  CollectSound'
<1> USE DEF Goto
<1>1. TypeOK /\ OneRun /\ pointer \in Nat
  BY DEF WindowInv, TypeInv, TypeOK
<1>2. ASSUME NEW r \in Runs, pc[r] \notin {"new", "ended"},
             \A q \in Runs : q # r => pc'[q] = pc[q],
             pc'[r] \notin {"read", "delete"}
      PROVE  CollectSound'
  <2>1. \A q \in Runs : pc'[q] \notin {"read", "delete"}
    BY <1>1, <1>2, Alone
  <2> QED
    BY <2>1 DEF CollectSound
<1>3. ASSUME NEW r \in Runs, pc[r] \notin {"new", "ended"},
             \A q \in Runs : q # r => pc'[q] = pc[q],
             /\ pc'[r] = "read" => \A k \in Keys : objects'[k] # None => k \in targets'[r]
             /\ pc'[r] = "delete" =>
                  \A k \in Keys :
                      objects'[k] # None => k \in targets'[r] \cup undeleted'[r] \/ Listed(k)'
      PROVE  CollectSound'
  <2>1. \A q \in Runs : q # r => pc'[q] \in {"new", "ended"}
    BY <1>1, <1>3, Alone
  <2> QED
    BY <1>3, <2>1 DEF CollectSound
<1>4. ASSUME NEW r \in Runs, Begin(r) PROVE CollectSound'
  <2>1. \A q \in Runs : pc'[q] \notin {"read", "delete"}
    BY <1>1, <1>4 DEF Begin, Ended, TypeOK
  <2> QED
    BY <2>1 DEF CollectSound
<1>5. ASSUME NEW r \in Runs,
             \/ ReadPointer(r) \/ ReadManifest(r)
             \/ \E m \in Mappings : SkipMapping(r, m)
             \/ \E m \in Mappings, parts \in SUBSET Parts : StartMapping(r, m, parts)
             \/ \E p \in Parts : UploadPart(r, p)
             \/ MappingDone(r) \/ UploadFails(r) \/ PutManifest(r) \/ PutPointer(r)
      PROVE  CollectSound'
  <2>1. /\ pc[r] \notin {"new", "ended"} /\ pc'[r] \notin {"read", "delete"}
        /\ \A q \in Runs : q # r => pc'[q] = pc[q]
    <3>1. CASE ReadPointer(r) \/ ReadManifest(r)
      BY <1>1, <3>1 DEF ReadPointer, ReadManifest, TypeOK
    <3>2. CASE \/ \E m \in Mappings : SkipMapping(r, m)
               \/ \E m \in Mappings, parts \in SUBSET Parts : StartMapping(r, m, parts)
               \/ \E p \in Parts : UploadPart(r, p)
      BY <1>1, <3>2 DEF SkipMapping, StartMapping, UploadPart, TypeOK
    <3>3. CASE MappingDone(r) \/ UploadFails(r) \/ PutManifest(r) \/ PutPointer(r)
      BY <1>1, <3>3 DEF MappingDone, UploadFails, LeaveMapping, PutManifest, PutPointer, TypeOK
    <3> QED
      BY <1>5, <3>1, <3>2, <3>3
  <2> QED
    BY <1>2, <2>1
<1>6. ASSUME NEW r \in Runs, VacuumList(r) PROVE CollectSound'
  <2>1. /\ pc[r] = "list" /\ pc'[r] = "read" /\ \A q \in Runs : q # r => pc'[q] = pc[q]
        /\ objects' = objects /\ targets'[r] = {k \in Keys : objects[k] # None}
    BY <1>1, <1>6 DEF VacuumList, TypeOK, store
  <2> QED
    BY <1>3, <2>1
<1>7. ASSUME NEW r \in Runs, VacuumRead(r) PROVE CollectSound'
  <2>1. /\ pc[r] = "read" /\ pc'[r] = "delete" /\ \A q \in Runs : q # r => pc'[q] = pc[q]
        /\ UNCHANGED store
    BY <1>1, <1>7 DEF VacuumRead, TypeOK
  <2>2. targets'[r] = targets[r] \ Referenced(Kept(stored, pointer)) /\ pointer \in Versions
    <3>1. listed[r] = stored /\ base[r] + 1 = pointer
      BY <2>1 DEF WindowInv, VacuumBase
    <3>2. base[r] \in Nat /\ pointer <= MaxVersion
      BY <1>1, WarehouseAssumption DEF TypeOK
    <3> QED
      BY <1>1, <1>7, <3>1, <3>2, WarehouseAssumption
      DEF VacuumRead, Unreferenced, NextVersion, TypeOK, Versions
  <2>3. ASSUME NEW k \in Referenced(Kept(stored, pointer)) PROVE Listed(k)
    <3>1. PICK v \in Kept(stored, pointer) : \E f \in manifests[v] : f.key = k
      BY DEF Referenced
    <3>2. v \in Versions /\ Window(v)
      BY <1>1, <2>2, KeptWindow DEF WindowInv
    <3> QED
      BY <3>1, <3>2 DEF Listed
  <2>4. \A k \in Keys : Listed(k)' <=> Listed(k)
    BY <2>1 DEF Listed, Window, store
  <2>5. \A k \in Keys : objects'[k] # None => k \in targets[r]
    BY <2>1 DEF CollectSound, store
  <2> QED
    BY <1>3, <2>1, <2>2, <2>3, <2>4, <2>5
<1>8. ASSUME NEW r \in Runs,
             (\E k \in Keys : VacuumObject(r, k)) \/ (\E v \in Versions : VacuumManifest(r, v))
      PROVE  CollectSound'
  <2>1. /\ pc[r] = "delete" /\ pc' = pc /\ pointer' = pointer
    BY <1>8 DEF VacuumObject, VacuumManifest
  <2>2. \A w \in Versions : Window(w) => manifests'[w] = manifests[w]
    <3>1. ASSUME NEW v \in Versions, VacuumManifest(r, v), NEW w \in Versions, Window(w)
          PROVE  manifests'[w] = manifests[w]
      <4>1. w # v
        BY <3>1, DoomedOutside
      <4> QED
        BY <1>1, <3>1, <4>1 DEF VacuumManifest, TypeOK
    <3> QED
      BY <1>8, <3>1 DEF VacuumObject
  <2>3. \A k \in Keys : Listed(k) => Listed(k)'
    BY <2>1, <2>2 DEF Listed, Window
  <2>4. \A k \in Keys :
          objects'[k] # None =>
              /\ objects[k] # None
              /\ k \in targets[r] \cup undeleted[r] => k \in targets'[r] \cup undeleted'[r]
    <3>1. CASE \E x \in Keys : VacuumObject(r, x)
      BY <1>1, <3>1 DEF VacuumObject, TypeOK
    <3>2. CASE \E v \in Versions : VacuumManifest(r, v)
      BY <3>2 DEF VacuumManifest, flags
    <3> QED
      BY <1>8, <3>1, <3>2
  <2>5. \A k \in Keys : objects[k] # None => k \in targets[r] \cup undeleted[r] \/ Listed(k)
    BY <2>1 DEF CollectSound
  <2> QED
    BY <1>3, <2>1, <2>3, <2>4, <2>5
<1>9. ASSUME NEW r \in Runs, Untouched(r) \/ VacuumDone(r) \/ Stop(r) \/ Cancelled(r)
      PROVE  CollectSound'
  <2>1. ~Ended(r) /\ End(r)
    BY <1>9 DEF Untouched, VacuumDone, Stop, Cancelled, Ended
  <2>2. /\ pc[r] \notin {"new", "ended"} /\ pc'[r] = "ended"
        /\ \A q \in Runs : q # r => pc'[q] = pc[q]
    BY <1>1, <2>1 DEF Ended, End, TypeOK
  <2> QED
    BY <1>2, <2>2
<1>10. CASE UNCHANGED vars
  BY <1>10 DEF CollectSound, Listed, Window, vars
<1> QED
  BY <1>4, <1>5, <1>6, <1>7, <1>8, <1>9, <1>10 DEF Next

\* A vacuum that ends has deleted all its targets.
LEMMA CollectedStep == CollectSound => Collected
<1> SUFFICES ASSUME CollectSound, NEW r \in Runs, VacuumDone(r), NEW k \in Keys, objects[k] # None,
                    k \notin undeleted[r]
             PROVE  Listed(k)
  BY DEF Collected, Listed, Window
<1>1. pc[r] = "delete" /\ k \notin targets[r]
  BY DEF VacuumDone
<1> QED
  BY <1>1 DEF CollectSound

-----------------------------------------------------------------------------
(* The theorems.                                                            *)

\* Runs that do not overlap keep the published version and the Retain - 1
\* before it readable, wherever execute_job, publish or vacuum stops.
THEOREM VersionsReadable ==
    ASSUME Overlap = FALSE, PointerFaults = FALSE
    PROVE  Spec => []RetainedReadable
<1>1. Init => StoreInv
  BY StoreInit
<1>2. StoreInv /\ [Next]_vars => StoreInv'
  BY StoreStep
<1>3. StoreInv => RetainedReadable
  BY DEF StoreInv
<1> QED
  BY <1>1, <1>2, <1>3, PTL DEF Spec

\* Nor does any of their steps write over a retained version, or move the
\* pointer back: a reader that resolved one scans what was published.
THEOREM VersionsFrozen ==
    ASSUME Overlap = FALSE, PointerFaults = FALSE
    PROVE  Spec => PublishedFrozen
<1>1. Init => StoreInv
  BY StoreInit
<1>2. StoreInv /\ [Next]_vars => StoreInv'
  BY StoreStep
<1>3. StoreInv /\ [Next]_vars => [Frozen]_vars
  BY FrozenStep
<1>4. Spec => [][Frozen]_vars
  BY <1>1, <1>2, <1>3, PTL DEF Spec
<1> QED
  BY <1>4 DEF PublishedFrozen, Frozen

\* The types hold whether or not runs overlap: no run works on a version, or
\* uploads for a mapping, that there is not.
THEOREM TypesHold == Spec => []TypeOK
<1>1. Init => TypeInv
  BY TypeInit DEF Init, TypeInv
<1>2. TypeInv /\ [Next]_vars => TypeInv'
  BY TypeInvStep
<1>3. TypeInv => TypeOK
  BY DEF TypeInv
<1> QED
  BY <1>1, <1>2, <1>3, PTL DEF Spec

\* The objects a retained version lists for a mapping hold the bytes of one run:
\* the list takes them from one run, and they still hold what was listed.
THEOREM PublishedWhole ==
    ASSUME Overlap = FALSE, PointerFaults = FALSE
    PROVE  Spec => []MappingsWhole
<1> DEFINE Inv == StoreInv /\ WholeInv
<1>1. Init => Inv
  BY StoreInit, TypeInit DEF Init, TypeInv, WholeInv, Whole
<1>2. Inv /\ [Next]_vars => Inv'
  BY StoreStep, WholeStep
<1>3. Inv => MappingsWhole
  BY DEF StoreInv, RetainedReadable, Readable, WholeInv, Whole, MappingsWhole
<1> HIDE DEF Inv
<1> QED
  BY <1>1, <1>2, <1>3, PTL DEF Spec

\* A mapping that was skipped, or whose upload failed, keeps in the new version
\* the files it had in the last one, unless the run is a clean one.
THEOREM FailedFilesKept ==
    ASSUME Overlap = FALSE, PointerFaults = FALSE
    PROVE  Spec => FailedKeepFiles
<1> DEFINE Inv == StoreInv /\ KeepSound
<1>1. Init => Inv
  BY StoreInit DEF Init, KeepSound
<1>2. Inv /\ [Next]_vars => Inv'
  BY StoreStep, KeepStep
<1>3. Inv /\ [Next]_vars => [KeptFiles]_vars
  BY KeptFilesStep
<1> HIDE DEF Inv
<1>4. Spec => [][KeptFiles]_vars
  BY <1>1, <1>2, <1>3, PTL DEF Spec
<1> QED
  BY <1>4 DEF FailedKeepFiles, KeptFiles

\* A vacuum leaves no object that no version of the window lists, but those
\* whose DELETE failed: whatever earlier runs had uploaded or not deleted, and
\* also after a failed GET of the pointer has sent the table back to version 1.
THEOREM OrphansGone ==
    ASSUME Overlap = FALSE
    PROVE  Spec => OrphansCollected
<1> DEFINE Inv == WindowInv /\ CollectSound
<1>1. Init => Inv
  <2>1. Init => CollectSound /\ OneRun /\ VacuumBase
    BY DEF Init, CollectSound, OneRun, Ended, VacuumBase
  <2>2. Init => TypeInv
    BY TypeInit DEF Init, TypeInv
  <2>3. Init => WindowStored
    BY WarehouseAssumption DEF Init, WindowStored, Window, Versions
  <2> QED
    BY <2>1, <2>2, <2>3 DEF WindowInv
<1>2. Inv /\ [Next]_vars => Inv'
  BY WindowStep, CollectStep
<1>3. Inv /\ [Next]_vars => [Collected]_vars
  BY CollectedStep
<1> HIDE DEF Inv
<1>4. Spec => [][Collected]_vars
  BY <1>1, <1>2, <1>3, PTL DEF Spec
<1> QED
  BY <1>4 DEF OrphansCollected, Collected
=============================================================================
