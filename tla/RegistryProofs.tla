--------------------------- MODULE RegistryProofs ----------------------------
(***************************************************************************)
(* Theorems about SourceRegistry, for any number of sources, calls,        *)
(* failing saves and restarts.                                             *)
(*                                                                         *)
(* What the safety properties say of the process they owe to what a        *)
(* restart finds in the file, so each part of the invariant Inv speaks of  *)
(* both: IDs are never used twice, neither the registry nor a file that    *)
(* loads lacks an added source or has a removed one, and neither has the   *)
(* configured URL twice.                                                   *)
(***************************************************************************)
EXTENDS SourceRegistry, FiniteSetTheorems, TLAPS

FileOK == file \in [state : {"missing", "ok", "garbage"}, sources : SUBSET Source]

Old(ss) == \A s \in ss : s.id < nextID

IDsFresh ==
    /\ Old(byID) /\ Old(file.sources) /\ Old(added) /\ Old(removing)
    /\ saving # Nobody /\ saving.op = "add" => saving.source \notin added

InCall ==
    /\ up = "down" => gone = {} /\ saved = {}
    /\ saving # Nobody /\ saving.op = "add" => saving.source \in byID
    /\ saving # Nobody /\ saving.op = "remove" =>
          saving.source \in removing /\ saving.source \notin byID
    /\ toCancel \cup toWait \subseteq removing

Kept ==
    /\ up # "down" => added \ removing \subseteq byID
    /\ file # Garbage => added \ removing \subseteq file.sources

Dropped ==
    /\ saved \cap byID = {} /\ saved \cap file.sources = {}
    /\ removed \cap byID = {} /\ removed \cap file.sources = {}

AtMostOne(ss) == \A s, t \in ss : s.configured /\ t.configured => s = t

Inv ==
    /\ TypeOK /\ FileOK
    /\ IDsFresh /\ InCall /\ Kept /\ Dropped /\ NoOrphan
    /\ AtMostOne(byID) /\ AtMostOne(file.sources)

-----------------------------------------------------------------------------

\* A process that is not up, and a file that is not there.
LEMMA InitInv == Init => Inv
BY SourceRegistryAssumption
   DEF Init, Inv, TypeOK, FileOK, IDsFresh, InCall, Kept, Dropped, NoOrphan, AtMostOne, Old, Nobody

\* A boot takes over what the file has.
LEMMA BootInv == ASSUME Inv, Boot PROVE Inv'
<1>. USE DEF Inv, Boot, memory, calls, history
<1>1. TypeOK'
  BY DEF TypeOK, Pull
<1>2. FileOK'
  BY DEF FileOK
<1>3. IDsFresh'
  BY DEF IDsFresh, Old
<1>4. InCall'
  BY DEF InCall, TypeOK
<1>5. Kept'
  BY DEF Kept, Garbage
<1>6. Dropped'
  BY DEF Dropped
<1>7. NoOrphan'
  BY DEF NoOrphan, InCall, Pull
<1>8. AtMostOne(byID)'
  OBVIOUS
<1>9. AtMostOne(file.sources)'
  OBVIOUS
<1>. QED BY <1>1, <1>2, <1>3, <1>4, <1>5, <1>6, <1>7, <1>8, <1>9

\* The end of the process leaves the file and nothing else.
LEMMA EndInv == ASSUME Inv, End PROVE Inv'
<1>. USE DEF Inv, End, memory, calls, history
<1>1. TypeOK'
  BY DEF TypeOK
<1>2. FileOK'
  BY DEF FileOK
<1>3. IDsFresh'
  BY DEF IDsFresh, Old
<1>4. InCall'
  BY DEF InCall
<1>5. Kept'
  BY DEF Kept
<1>6. Dropped'
  BY DEF Dropped
<1>7. NoOrphan'
  BY DEF NoOrphan
<1>8. AtMostOne(byID)'
  BY DEF AtMostOne
<1>9. AtMostOne(file.sources)'
  OBVIOUS
<1>. QED BY <1>1, <1>2, <1>3, <1>4, <1>5, <1>6, <1>7, <1>8, <1>9

\* A source is given an identifier never used before.
LEMMA StartAddingInv ==
    ASSUME Inv, NEW s \in Source, s.id = nextID, StartAdding(s),
           up # "down", up' = "serving",
           s.configured => \A t \in byID : ~t.configured
    PROVE  Inv'
<1>. USE DEF Inv, StartAdding, Starting
<1>1. TypeOK'
  <2>1. nextID' \in 1 .. MaxSources + 1
    BY SourceRegistryAssumption DEF TypeOK
  <2>2. running' \subseteq Pull(Source)
    BY DEF TypeOK, Pull
  <2>. QED BY <2>1, <2>2 DEF TypeOK
<1>2. FileOK'
  BY DEF FileOK
<1>3. IDsFresh'
  BY DEF IDsFresh, Old, TypeOK, Source
<1>4. InCall'
  BY DEF InCall
<1>5. Kept'
  BY DEF Kept
<1>6. Dropped'
  BY DEF Dropped, IDsFresh, Old, TypeOK
<1>7. NoOrphan'
  BY DEF NoOrphan, IDsFresh, Old, TypeOK, Nobody, Pull
<1>8. (AtMostOne(byID) /\ AtMostOne(file.sources))'
  BY DEF AtMostOne
<1>. QED BY <1>1, <1>2, <1>3, <1>4, <1>5, <1>6, <1>7, <1>8

\* Add and AddPush start adding a source.
LEMMA AddInv == ASSUME Inv, Add PROVE Inv'
<1>1. PICK kind \in {"pull", "push"} :
        StartAdding([id |-> nextID, kind |-> kind, configured |-> FALSE])
  BY DEF Add
<1>2. [id |-> nextID, kind |-> kind, configured |-> FALSE] \in Source
  BY <1>1 DEF Inv, TypeOK, StartAdding, Starting, Source
<1>. QED BY <1>1, <1>2, StartAddingInv DEF Add

\* The configured URL is added unless it is registered.
LEMMA ConfigureInv == ASSUME Inv, Configure PROVE Inv'
<1>1. CASE Configured /\ \A s \in byID : ~s.configured
  <2>1. StartAdding([id |-> nextID, kind |-> "pull", configured |-> TRUE])
    BY <1>1 DEF Configure, ConfigureIf
  <2>2. [id |-> nextID, kind |-> "pull", configured |-> TRUE] \in Source
    BY <2>1 DEF Inv, TypeOK, StartAdding, Starting, Source
  <2>. QED BY <1>1, <2>1, <2>2, StartAddingInv DEF Configure, ConfigureIf
<1>2. CASE ~(Configured /\ \A s \in byID : ~s.configured)
  BY <1>2
     DEF Configure, ConfigureIf, memory, calls, history, Inv, TypeOK, FileOK, IDsFresh, Old,
         InCall, Kept, Dropped, NoOrphan, AtMostOne
<1>. QED BY <1>1, <1>2

\* Remove takes the source out of memory before it saves.
LEMMA RemoveInv == ASSUME Inv, NEW s \in byID, Remove(s) PROVE Inv'
<1>. USE DEF Inv, Remove, memory, calls, history
<1>1. TypeOK'
  BY DEF TypeOK
<1>2. FileOK'
  BY DEF FileOK
<1>3. IDsFresh'
  BY DEF IDsFresh, Old
<1>4. InCall'
  BY DEF InCall
<1>5. Kept'
  BY DEF Kept
<1>6. Dropped'
  BY DEF Dropped
<1>7. NoOrphan'
  BY DEF NoOrphan, Nobody
<1>8. AtMostOne(byID)'
  BY DEF AtMostOne
<1>9. AtMostOne(file.sources)'
  OBVIOUS
<1>. QED BY <1>1, <1>2, <1>3, <1>4, <1>5, <1>6, <1>7, <1>8, <1>9

\* A save begins by emptying the file.
LEMMA SaveTruncatesInv == ASSUME Inv, SaveTruncates PROVE Inv'
<1>. USE DEF Inv, SaveTruncates, memory, calls, history
<1>1. TypeOK'
  BY DEF TypeOK, Garbage
<1>2. FileOK'
  BY DEF FileOK, Garbage
<1>3. IDsFresh'
  BY DEF IDsFresh, Old, Garbage
<1>4. InCall'
  BY DEF InCall
<1>5. Kept'
  BY DEF Kept
<1>6. Dropped'
  BY DEF Dropped, Garbage
<1>7. NoOrphan'
  BY DEF NoOrphan
<1>8. AtMostOne(byID)'
  OBVIOUS
<1>9. AtMostOne(file.sources)'
  BY DEF AtMostOne, Garbage
<1>. QED BY <1>1, <1>2, <1>3, <1>4, <1>5, <1>6, <1>7, <1>8, <1>9

\* A save that ends well makes the file what the memory is.
LEMMA SaveSucceedsInv == ASSUME Inv, SaveSucceeds PROVE Inv'
<1>. USE DEF Inv, SaveSucceeds, SaveReturns, memory, calls, history
<1>1. TypeOK'
  BY DEF TypeOK, InCall, Holding
<1>2. FileOK'
  BY DEF FileOK, TypeOK, Holding
<1>3. IDsFresh'
  BY DEF IDsFresh, Old, InCall, Holding
<1>4. InCall'
  BY DEF InCall, TypeOK
<1>5. Kept'
  BY DEF Kept, InCall, TypeOK, Holding
<1>6. Dropped'
  BY DEF Dropped, InCall, TypeOK, Holding
<1>7. NoOrphan'
  BY DEF NoOrphan
<1>8. AtMostOne(byID)'
  OBVIOUS
<1>9. AtMostOne(file.sources)'
  BY DEF Holding
<1>. QED BY <1>1, <1>2, <1>3, <1>4, <1>5, <1>6, <1>7, <1>8, <1>9

\* A failed save of an Add takes the source back.
LEMMA SaveFailsInv == ASSUME Inv, SaveFails PROVE Inv'
<1>. USE DEF Inv, SaveFails, SaveFailsTo, memory, calls, history
<1>1. TypeOK'
  BY DEF TypeOK, Pull, Garbage, Holding
<1>2. FileOK'
  BY DEF FileOK, TypeOK, Garbage, Holding
<1>3. IDsFresh'
  BY DEF IDsFresh, Old, Garbage, Holding
<1>4. InCall'
  BY DEF InCall, TypeOK
<1>5. Kept'
  BY DEF Kept, IDsFresh, TypeOK, Holding
<1>6. Dropped'
  BY DEF Dropped, Garbage, Holding
<1>7. NoOrphan'
  BY DEF NoOrphan, TypeOK, Pull
<1>8. AtMostOne(byID)'
  BY DEF AtMostOne
<1>9. AtMostOne(file.sources)'
  BY DEF AtMostOne, Garbage, Holding
<1>. QED BY <1>1, <1>2, <1>3, <1>4, <1>5, <1>6, <1>7, <1>8, <1>9

\* Remove cancels the goroutine of a source that is gone.
LEMMA RemoveCancelsInv == ASSUME Inv, NEW s \in toCancel, RemoveCancels(s) PROVE Inv'
<1>. USE DEF Inv, RemoveCancels, RemoveGoesOn, memory, calls, history
<1>1. TypeOK'
  BY DEF TypeOK, Pull
<1>2. FileOK'
  BY DEF FileOK
<1>3. IDsFresh'
  BY DEF IDsFresh, Old
<1>4. InCall'
  BY DEF InCall
<1>5. Kept'
  BY DEF Kept
<1>6. Dropped'
  BY DEF Dropped
<1>7. NoOrphan'
  BY DEF NoOrphan, TypeOK, Pull
<1>8. AtMostOne(byID)'
  OBVIOUS
<1>9. AtMostOne(file.sources)'
  OBVIOUS
<1>. QED BY <1>1, <1>2, <1>3, <1>4, <1>5, <1>6, <1>7, <1>8, <1>9

\* A cancelled goroutine returns.
LEMMA RunExitsInv == ASSUME Inv, NEW s \in running, RunExits(s) PROVE Inv'
<1>. USE DEF Inv, RunExits, memory, calls, history
<1>1. TypeOK'
  BY DEF TypeOK
<1>2. FileOK'
  BY DEF FileOK
<1>3. IDsFresh'
  BY DEF IDsFresh, Old
<1>4. InCall'
  BY DEF InCall
<1>5. Kept'
  BY DEF Kept
<1>6. Dropped'
  BY DEF Dropped
<1>7. NoOrphan'
  BY DEF NoOrphan
<1>8. AtMostOne(byID)'
  OBVIOUS
<1>9. AtMostOne(file.sources)'
  OBVIOUS
<1>. QED BY <1>1, <1>2, <1>3, <1>4, <1>5, <1>6, <1>7, <1>8, <1>9

\* Remove returns once the goroutine has.
LEMMA RemoveReturnsInv == ASSUME Inv, NEW s \in toWait, RemoveReturns(s) PROVE Inv'
<1>. USE DEF Inv, RemoveReturns, memory, calls, history
<1>1. TypeOK'
  BY DEF TypeOK, InCall
<1>2. FileOK'
  BY DEF FileOK
<1>3. IDsFresh'
  BY DEF IDsFresh, Old
<1>4. InCall'
  BY DEF InCall, TypeOK
<1>5. Kept'
  BY DEF Kept
<1>6. Dropped'
  BY DEF Dropped
<1>7. NoOrphan'
  BY DEF NoOrphan
<1>8. AtMostOne(byID)'
  OBVIOUS
<1>9. AtMostOne(file.sources)'
  OBVIOUS
<1>. QED BY <1>1, <1>2, <1>3, <1>4, <1>5, <1>6, <1>7, <1>8, <1>9

\* A step that changes nothing.
LEMMA StutterInv == ASSUME Inv, UNCHANGED vars PROVE Inv'
BY DEF vars, memory, calls, history, Inv, TypeOK, FileOK, IDsFresh, Old, InCall, Kept, Dropped,
       NoOrphan, AtMostOne

\* Inv is inductive and thus holds throughout.
THEOREM Invariance == Spec => []Inv
<1>1. Inv /\ [Next]_vars => Inv'
  BY BootInv, EndInv, AddInv, ConfigureInv, RemoveInv, SaveTruncatesInv, SaveSucceedsInv,
     SaveFailsInv, RemoveCancelsInv, RunExitsInv, RemoveReturnsInv, StutterInv DEF Next
<1>. QED BY InitInv, <1>1, PTL DEF Spec

-----------------------------------------------------------------------------

\* Every variable of the registry and of its file keeps its type (registry.go).
THEOREM TypeCorrect == Spec => []TypeOK
BY Invariance, PTL DEF Inv

\* No ingestion goroutine outlives its source: whatever saves fail and whatever calls
\* overlap, one that runs is registered or being stopped (registry.go:147-232).
THEOREM Orphans == Spec => []NoOrphan
BY Invariance, PTL DEF Inv

\* A source added without error is there after every restart, until a Remove finds it
\* (registry.go:88-134).
THEOREM Durability == Spec => []AddSurvivesRestart
<1>1. Inv => AddSurvivesRestart
  BY DEF Inv, Kept, AddSurvivesRestart
<1>. QED BY Invariance, <1>1, PTL

\* A source removed without error never comes back (registry.go:215-232).
THEOREM Removal == Spec => []RemovedStaysGone
<1>1. Inv => RemovedStaysGone
  BY DEF Inv, Dropped, RemovedStaysGone
<1>. QED BY Invariance, <1>1, PTL

\* Restarts do not pile up registrations of the configured URL (main.go:101-120).
THEOREM OneRegistration == Spec => []OneConfiguredSource
<1>1. ASSUME Inv PROVE OneConfiguredSource
  <2>. DEFINE C == {s \in byID : s.configured}
  <2>1. CASE C = {}
    BY <2>1, FS_EmptySet DEF OneConfiguredSource
  <2>2. CASE C # {}
    <3>1. PICK s : C = {s}
      BY <1>1, <2>2 DEF Inv, AtMostOne
    <3>. QED BY <3>1, FS_Singleton DEF OneConfiguredSource
  <2>. QED BY <2>1, <2>2
<1>. QED BY Invariance, <1>1, PTL
=============================================================================
