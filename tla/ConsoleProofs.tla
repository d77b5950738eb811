--------------------------- MODULE ConsoleProofs ----------------------------
(***************************************************************************)
(* What a page shows when nothing is under way, what its busy flag means,  *)
(* what the dashboard lists, and how a session ends: for any number of     *)
(* messages, filters, rows, requests and handlers under way, and tokens.   *)
(***************************************************************************)
EXTENDS Console, FiniteSetTheorems, SequenceTheorems, TLAPS

----------------------------------------------------------------------------
(***************************************************************************)
(* The pages that search.                                                  *)
(***************************************************************************)
\* The request that was sent last asks for what is wanted, and once it is over
\* its answer is shown, unless an error or an older answer came after it.
SearchInv ==
  /\ newest \in Loads
  /\ load \in [Loads -> LoadStates]
  /\ load[newest].pc # "idle" => load[newest].query = wanted
  /\ load[newest].pc = "idle" => error \/ crossed \/ shown.query = wanted
  /\ loading => load[newest].pc # "idle"
  /\ wanted \in SearchQueries
  /\ shown \in [query : SearchQueries, pages : 0 .. MaxPages]

LEMMA FirstLoadIsOne == FirstLoad \in Loads
  BY SearchAssumption DEF FirstLoad

LEMMA FirstQueryType == FirstQuery \in SearchQueries
  BY SearchAssumption DEF FirstQuery, SearchQueries

LEMMA NoLoadType ==
  ASSUME NEW q \in SearchQueries
  PROVE  /\ NoLoad \in LoadStates
         /\ [NoLoad EXCEPT !.pc = "sent"] \in LoadStates
         /\ [NoLoad EXCEPT !.pc = "sent", !.query = q] \in LoadStates
<1>1. 0 \in 0 .. MaxPages
  BY SearchAssumption
<1>2. FirstQuery \in SearchQueries
  BY FirstQueryType
<1>3. NoLoad \in LoadStates
  BY <1>1, <1>2 DEF NoLoad, LoadStates
<1>4. QED
  BY <1>3 DEF LoadStates

LEMMA LoadsAtFirstType == LoadsAtFirst \in [Loads -> LoadStates]
  BY NoLoadType, FirstQueryType DEF LoadsAtFirst

LEMMA SearchInitInv == SearchInit => SearchInv
  BY FirstLoadIsOne, FirstQueryType, LoadsAtFirstType, SearchAssumption
  DEF SearchInit, SearchInv, LoadsAtFirst, NoLoad

LEMMA SearchMountInv == SearchMount => SearchInv'
  BY FirstLoadIsOne, FirstQueryType, LoadsAtFirstType, SearchAssumption
  DEF SearchMount, SearchInv, LoadsAtFirst, NoLoad

LEMMA ReloadInv ==
  ASSUME SearchInv, NEW q \in SearchQueries, Reload(q)
  PROVE  SearchInv'
<1>1. PICK t \in Loads : /\ load[t].pc = "idle"
                         /\ load' = [load EXCEPT ![t] = [NoLoad EXCEPT !.pc = "sent", !.query = q]]
                         /\ newest' = t
  BY DEF Reload
<1>2. load' \in [Loads -> LoadStates]
  BY <1>1, NoLoadType DEF SearchInv
<1>3. load'[t].pc = "sent" /\ load'[t].query = q
  BY <1>1 DEF SearchInv, NoLoad
<1>4. QED
  BY <1>1, <1>2, <1>3 DEF Reload, SearchInv

LEMMA SearchStepInv ==
  ASSUME SearchInv, SearchStep \/ SearchServed
  PROVE  SearchInv'
<1>1. CASE \E f \in Filters : Search(f)
  <2>1. PICK f \in Filters : Search(f)
    BY <1>1
  <2>2. [page |-> 1, filter |-> f] \in SearchQueries
    BY DEF SearchQueries
  <2>3. QED
    BY <2>1, <2>2, ReloadInv DEF Search
<1>2. CASE Reset
  BY <1>2, FirstQueryType, ReloadInv DEF Reset
<1>3. CASE TurnPage
  <2>1. TotalPages \in Nat
    BY SearchAssumption DEF TotalPages, SearchInv
  <2>2. CASE wanted.page > 1 /\ Reload([wanted EXCEPT !.page = @ - 1])
    <3>1. [wanted EXCEPT !.page = @ - 1] \in SearchQueries
      BY <2>2 DEF SearchInv, SearchQueries
    <3>2. QED
      BY <2>2, <3>1, ReloadInv
  <2>3. CASE wanted.page < TotalPages /\ Reload([wanted EXCEPT !.page = @ + 1])
    <3>1. [wanted EXCEPT !.page = @ + 1] \in SearchQueries
      BY <2>3 DEF SearchInv, SearchQueries
    <3>2. QED
      BY <2>3, <3>1, ReloadInv
  <2>4. QED
    BY <1>3, <2>2, <2>3 DEF TurnPage
<1>4. ASSUME NEW t \in Loads, LoadServed(t)
      PROVE  SearchInv'
  <2>1. PICK n \in 0 .. MaxPages :
           load' = [load EXCEPT ![t].pc = "served", ![t].pages = n]
    BY <1>4 DEF LoadServed
  <2>2. load' \in [Loads -> LoadStates]
    BY <2>1 DEF SearchInv, LoadStates
  <2>3. \A u \in Loads : /\ load'[u].query = load[u].query
                         /\ (load'[u].pc = "idle") = (load[u].pc = "idle")
    BY <1>4, <2>1 DEF SearchInv, LoadStates, LoadServed
  <2>4. QED
    BY <1>4, <2>2, <2>3 DEF LoadServed, SearchInv
<1>5. ASSUME NEW t \in Loads, LoadArrives(t)
      PROVE  SearchInv'
  <2>1. load' \in [Loads -> LoadStates] /\ load'[t].pc = "idle"
    BY <1>5, NoLoadType, FirstQueryType DEF LoadArrives, SearchInv, NoLoad
  <2>2. shown' \in [query : SearchQueries, pages : 0 .. MaxPages]
    BY <1>5 DEF LoadArrives, SearchInv, LoadStates
  <2>3. CASE t = newest
    <3>1. shown'.query = wanted
      BY <1>5, <2>3 DEF LoadArrives, SearchInv
    <3>2. QED
      BY <1>5, <2>1, <2>2, <2>3, <3>1 DEF LoadArrives, SearchInv
  <2>4. CASE t # newest
    <3>1. load'[newest] = load[newest] /\ crossed'
      BY <1>5, <2>4 DEF LoadArrives, SearchInv
    <3>2. QED
      BY <1>5, <2>1, <2>2, <3>1 DEF LoadArrives, SearchInv
  <2>5. QED
    BY <2>3, <2>4
<1>6. ASSUME NEW t \in Loads, LoadFails(t)
      PROVE  SearchInv'
  <2>1. load' \in [Loads -> LoadStates]
    BY <1>6, NoLoadType, FirstQueryType DEF LoadFails, SearchInv
  <2>2. load'[newest].pc # "idle" => load'[newest] = load[newest]
    BY <1>6 DEF LoadFails, SearchInv, NoLoad
  <2>3. QED
    BY <1>6, <2>1, <2>2 DEF LoadFails, SearchInv
<1>7. QED
  BY <1>1, <1>2, <1>3, <1>4, <1>5, <1>6 DEF SearchStep, SearchServed

LEMMA ReloadTypes ==
  ASSUME SearchTypeOK, NEW q \in SearchQueries, q.page >= 1, Reload(q)
  PROVE  SearchTypeOK'
  BY NoLoadType DEF Reload, SearchTypeOK

LEMMA SearchFirstTypes == SearchInit => SearchTypeOK
<1>1. FirstQuery.page >= 1 /\ 0 \in 0 .. MaxPages
  BY SearchAssumption DEF FirstQuery
<1>2. [query |-> FirstQuery, pages |-> 0] \in [query : SearchQueries, pages : 0 .. MaxPages]
  BY <1>1, FirstQueryType
<1>3. SearchInit => wanted.page >= 1
  BY <1>1 DEF SearchInit
<1>4. QED
  BY <1>2, <1>3, FirstLoadIsOne, FirstQueryType, LoadsAtFirstType DEF SearchInit, SearchTypeOK

LEMMA SearchMountTypes == SearchMount => SearchTypeOK'
<1>1. FirstQuery.page >= 1 /\ 0 \in 0 .. MaxPages
  BY SearchAssumption DEF FirstQuery
<1>2. [query |-> FirstQuery, pages |-> 0] \in [query : SearchQueries, pages : 0 .. MaxPages]
  BY <1>1, FirstQueryType
<1>3. SearchMount => wanted'.page >= 1
  BY <1>1 DEF SearchMount
<1>4. QED
  BY <1>2, <1>3, FirstLoadIsOne, FirstQueryType, LoadsAtFirstType DEF SearchMount, SearchTypeOK

LEMMA SearchStepTypes ==
  ASSUME SearchTypeOK, SearchStep \/ SearchServed
  PROVE  SearchTypeOK'
<1>1. ASSUME NEW f \in Filters, Search(f) \/ Reset
      PROVE  SearchTypeOK'
  <2>1. [page |-> 1, filter |-> f] \in SearchQueries /\ [page |-> 1, filter |-> f].page >= 1
    BY DEF SearchQueries
  <2>2. FirstQuery \in SearchQueries /\ FirstQuery.page >= 1
    BY FirstQueryType DEF FirstQuery
  <2>3. QED
    BY <1>1, <2>1, <2>2, ReloadTypes DEF Search, Reset
<1>2. CASE TurnPage
  <2>1. PICK q \in {[wanted EXCEPT !.page = @ - 1], [wanted EXCEPT !.page = @ + 1]} :
          /\ Reload(q)
          /\ q = [wanted EXCEPT !.page = @ - 1] => wanted.page > 1
    <3>1. wanted.page \in Nat /\ wanted.page >= 1
      BY DEF SearchTypeOK, SearchQueries
    <3>2. [wanted EXCEPT !.page = @ - 1] # [wanted EXCEPT !.page = @ + 1]
      BY <3>1 DEF SearchTypeOK, SearchQueries
    <3>3. QED
      BY <1>2, <3>2 DEF TurnPage
  <2>2. q \in SearchQueries /\ q.page >= 1
    BY <2>1 DEF SearchTypeOK, SearchQueries
  <2>3. QED
    BY <2>1, <2>2, ReloadTypes
<1>3. ASSUME NEW t \in Loads, LoadServed(t)
      PROVE  SearchTypeOK'
  <2>1. PICK n \in 0 .. MaxPages :
           load' = [load EXCEPT ![t].pc = "served", ![t].pages = n]
    BY <1>3 DEF LoadServed
  <2>2. load' \in [Loads -> LoadStates]
    BY <2>1 DEF SearchTypeOK, LoadStates
  <2>3. QED
    BY <1>3, <2>2 DEF LoadServed, SearchTypeOK
<1>4. ASSUME NEW t \in Loads, LoadArrives(t) \/ LoadFails(t)
      PROVE  SearchTypeOK'
  <2>1. load' \in [Loads -> LoadStates] /\ load[t] \in LoadStates
    BY <1>4, NoLoadType, FirstQueryType DEF LoadArrives, LoadFails, SearchTypeOK
  <2>2. (t # newest) \in BOOLEAN
    OBVIOUS
  <2>3. CASE LoadArrives(t)
    BY <2>1, <2>2, <2>3 DEF LoadArrives, SearchTypeOK, LoadStates
  <2>4. CASE LoadFails(t)
    BY <2>1, <2>4 DEF LoadFails, SearchTypeOK
  <2>5. QED
    BY <1>4, <2>3, <2>4
<1>5. NoFilter \in Filters
  BY SearchAssumption
<1>6. QED
  BY <1>1, <1>2, <1>3, <1>4, <1>5 DEF SearchStep, SearchServed

LEMMA SearchInvShown == SearchInv => ShownIsWanted
  BY DEF SearchInv, ShownIsWanted, SearchQuiet

----------------------------------------------------------------------------
(***************************************************************************)
(* The pages that change what they show.                                   *)
(***************************************************************************)
\* The flag belongs to one handler.
FlagInv ==
  /\ \A t \in Runs : run[t].pc = "idle" => run[t].op = "load"
  /\ busy <=> \E t \in Runs : SetFlag(t)
  /\ \A t, u \in Runs : SetFlag(t) /\ SetFlag(u) => t = u

\* A handler that has yet to read what it has changed, or another reader.
Pending(t) ==
  \/ run[t].pc = "answered" /\ run[t].ok /\ run[t].op # "check"
  \/ run[t].pc = "loading"

\* What is shown, and what the newest read holds, is the table, or there is a
\* handler that will read it again.
ShownInv ==
  /\ ~stale => rows = table \/ \E t \in Runs : Pending(t)
  /\ latest # NoRun /\ run[latest].pc = "loaded"
       => run[latest].read = table \/ \E t \in Runs : Pending(t)

ManageInv == ManageTypeOK /\ FlagInv /\ ShownInv

LEMMA NoRunYetType ==
  /\ NoTable \in Tables
  /\ NoRunYet \in RunStates
  /\ [NoRunYet EXCEPT !.pc = "loading"] \in RunStates
  /\ \A o \in Changes, r \in Rows :
       [NoRunYet EXCEPT !.pc = "asked", !.op = o, !.row = r] \in RunStates
<1>1. NoTable \in Tables
  BY DEF NoTable, Tables, RowStates
<1>2. NoRunYet \in RunStates
  BY <1>1 DEF NoRunYet, RunStates, RunSteps
<1>3. QED
  BY <1>1, <1>2 DEF RunStates, RunSteps

LEMMA RunsAtFirstInv ==
  /\ RunsAtFirst \in [Runs -> RunStates]
  /\ \A t \in Runs : RunsAtFirst[t].op = "load"
  BY NoRunYetType DEF RunsAtFirst, NoRunYet

LEMMA ManageInitInv == ManageInit => ManageInv
  BY NoRunYetType, RunsAtFirstInv
  DEF ManageInit, ManageInv, ManageTypeOK, FlagInv, ShownInv, SetFlag

LEMMA ManageMountInv ==
  ASSUME NEW all \in BOOLEAN, NEW stored \in Tables, ManageMount(all, stored)
  PROVE  ManageInv'
  BY NoRunYetType, RunsAtFirstInv
  DEF ManageMount, ManageInv, ManageTypeOK, FlagInv, ShownInv, SetFlag

\* The end of a handler clears its flag.
LEMMA EndInv ==
  ASSUME ManageTypeOK, FlagInv, NEW t \in Runs, End(t), guarded' = guarded
  PROVE  /\ run' \in [Runs -> RunStates] /\ busy' \in BOOLEAN
         /\ run'[t].pc = "idle"
         /\ \A u \in Runs \ {t} : run'[u] = run[u]
         /\ FlagInv'
<1>1. run' \in [Runs -> RunStates] /\ busy' \in BOOLEAN
  BY NoRunYetType DEF End, ManageTypeOK
<1>2. run'[t] = NoRunYet /\ \A u \in Runs \ {t} : run'[u] = run[u]
  BY DEF End, ManageTypeOK
<1>3. run'[t].pc = "idle" /\ run'[t].op = "load"
  BY <1>2 DEF NoRunYet
<1>4. ~SetFlag(t)'
  BY <1>3 DEF SetFlag
<1>5. \A u \in Runs \ {t} : SetFlag(u)' = SetFlag(u)
  BY <1>2 DEF SetFlag, Flagged
<1>6. busy' <=> \E u \in Runs : SetFlag(u)'
  BY <1>4, <1>5 DEF End, FlagInv
<1>7. \A u, v \in Runs : SetFlag(u)' /\ SetFlag(v)' => u = v
  BY <1>4, <1>5 DEF FlagInv
<1>8. \A u \in Runs : run'[u].pc = "idle" => run'[u].op = "load"
  BY <1>2, <1>3 DEF FlagInv
<1>9. QED
  BY <1>1, <1>2, <1>3, <1>6, <1>7, <1>8 DEF FlagInv

\* A step of a handler that leaves its operation, and the flag, alone.
LEMMA StepFlagInv ==
  ASSUME FlagInv, NEW t \in Runs, run[t].pc # "idle", run'[t].pc # "idle",
         run'[t].op = run[t].op, \A u \in Runs \ {t} : run'[u] = run[u],
         UNCHANGED <<guarded, busy>>
  PROVE  FlagInv'
<1>1. \A u \in Runs : SetFlag(u)' = SetFlag(u)
  BY DEF SetFlag, Flagged
<1>2. QED
  BY <1>1 DEF FlagInv

LEMMA BeginInv ==
  ASSUME ManageInv, NEW o \in Changes, NEW r \in Rows, Begin(o, r)
  PROVE  ManageInv'
<1>1. PICK t \in Runs :
         /\ run[t].pc = "idle"
         /\ run' = [run EXCEPT ![t] = [NoRunYet EXCEPT !.pc = "asked", !.op = o, !.row = r]]
  BY DEF Begin
<1>2. run' \in [Runs -> RunStates] /\ busy' \in BOOLEAN
  BY <1>1, NoRunYetType DEF Begin, ManageInv, ManageTypeOK, Flagged
<1>3. /\ run'[t].pc = "asked" /\ run'[t].op = o
      /\ \A u \in Runs \ {t} : run'[u] = run[u]
  BY <1>1 DEF ManageInv, ManageTypeOK, NoRunYet
<1>4. ManageTypeOK'
  BY <1>2 DEF Begin, ManageInv, ManageTypeOK
<1>5. FlagInv'
  <2>1. ~SetFlag(t)
    BY <1>1 DEF ManageInv, FlagInv, SetFlag
  <2>2. \A u \in Runs \ {t} : SetFlag(u)' = SetFlag(u)
    BY <1>3 DEF SetFlag, Flagged, Begin
  <2>3. SetFlag(t)' = Flagged(o)
    BY <1>3 DEF SetFlag, Flagged, Begin, Changes
  <2>4. busy' <=> \E u \in Runs : SetFlag(u)'
    BY <2>1, <2>2, <2>3 DEF Begin, ManageInv, FlagInv
  <2>5. \A u, v \in Runs : SetFlag(u)' /\ SetFlag(v)' => u = v
    BY <2>1, <2>2, <2>3 DEF Begin, ManageInv, FlagInv
  <2>6. QED
    BY <1>3, <2>4, <2>5 DEF ManageInv, FlagInv
<1>6. ShownInv'
  <2>1. \A u \in Runs : Pending(u) => Pending(u)'
    BY <1>1, <1>3 DEF Pending
  <2>2. latest # NoRun /\ run'[latest].pc = "loaded" => run'[latest] = run[latest]
    BY <1>3 DEF ManageInv, ManageTypeOK
  <2>3. QED
    BY <2>1, <2>2 DEF Begin, ManageInv, ShownInv
<1>7. QED
  BY <1>4, <1>5, <1>6 DEF ManageInv

LEMMA ButtonInv ==
  ASSUME ManageInv, NEW r \in Rows,
         Create(r) \/ Edit(r) \/ Toggle(r) \/ RemoveRow(r) \/ Check(r)
  PROVE  ManageInv'
<1>1. \E o \in Changes : Begin(o, r)
  BY DEF Create, Edit, Toggle, RemoveRow, Check, Changes
<1>2. QED
  BY <1>1, BeginInv

\* The change is made, and its handler will read the table again.
LEMMA ApplyInv ==
  ASSUME ManageInv, NEW t \in Runs, Apply(t)
  PROVE  ManageInv'
<1>1. Succeed(t) /\ run[t].pc = "asked"
  BY DEF Apply, ApplyCreate, ApplyEdit, ApplyEnabled, ApplyRemove, ApplyCheck, Asks
<1>2. /\ run' \in [Runs -> RunStates]
      /\ run'[t].pc = "answered" /\ run'[t].ok /\ run'[t].op = run[t].op
      /\ \A u \in Runs \ {t} : run'[u] = run[u]
  BY <1>1 DEF Succeed, ManageInv, ManageTypeOK, RunStates, RunSteps
<1>3. /\ table' = table \/ \E s \in RowStates : Store(t, s)
      /\ run[t].op = "check" => table' = table
  BY DEF Apply, ApplyCreate, ApplyEdit, ApplyEnabled, ApplyRemove, ApplyCheck, Asks, RowStates
<1>4. table' \in Tables
  BY <1>3 DEF Store, ManageInv, ManageTypeOK, Tables
<1>5. ManageTypeOK'
  BY <1>1, <1>2, <1>4 DEF Succeed, ManageInv, ManageTypeOK
<1>6. FlagInv'
  BY <1>1, <1>2, StepFlagInv DEF Succeed, ManageInv
<1>7. ShownInv'
  <2>1. CASE run[t].op = "check"
    <3>1. \A u \in Runs : Pending(u) => Pending(u)'
      BY <1>1, <1>2 DEF Pending
    <3>2. latest # NoRun /\ run'[latest].pc = "loaded" => run'[latest] = run[latest]
      BY <1>2 DEF ManageInv, ManageTypeOK
    <3>3. QED
      BY <1>1, <1>3, <2>1, <3>1, <3>2 DEF Succeed, ManageInv, ShownInv
  <2>2. CASE run[t].op # "check"
    <3>1. Pending(t)'
      BY <1>2, <2>2 DEF Pending
    <3>2. QED
      BY <3>1 DEF ShownInv
  <2>3. QED
    BY <2>1, <2>2
<1>8. QED
  BY <1>5, <1>6, <1>7 DEF ManageInv

LEMMA AnswerInv ==
  ASSUME ManageInv, NEW t \in Runs, RefuseChange(t) \/ AnswerLost(t)
  PROVE  ManageInv'
<1>1. /\ run' \in [Runs -> RunStates]
      /\ run[t].pc # "idle"
      /\ run'[t].pc = "answered" /\ run'[t].op = run[t].op
      /\ \A u \in Runs \ {t} : run'[u] = run[u]
  <2>1. run \in [Runs -> RunStates] /\ run[t] \in RunStates
    BY DEF ManageInv, ManageTypeOK
  <2>2. CASE RefuseChange(t)
    BY <2>1, <2>2 DEF RefuseChange, RunStates, RunSteps
  <2>3. CASE AnswerLost(t)
    <3>1. run' = [run EXCEPT ![t] = [run[t] EXCEPT !.ok = FALSE]]
      BY <2>1, <2>3 DEF AnswerLost
    <3>2. [run[t] EXCEPT !.ok = FALSE] \in RunStates
      BY <2>1 DEF RunStates
    <3>3. QED
      BY <2>1, <2>3, <3>1, <3>2 DEF AnswerLost, RunStates
  <2>4. QED
    BY <2>2, <2>3
<1>2. ManageTypeOK'
  BY <1>1 DEF RefuseChange, AnswerLost, ManageInv, ManageTypeOK
<1>3. FlagInv'
  BY <1>1, StepFlagInv DEF RefuseChange, AnswerLost, ManageInv
<1>4. ShownInv'
  <2>1. CASE RefuseChange(t)
    <3>1. \A u \in Runs : Pending(u) => Pending(u)'
      BY <1>1, <2>1 DEF Pending, RefuseChange
    <3>2. latest # NoRun /\ run'[latest].pc = "loaded" => run'[latest] = run[latest]
      BY <1>1 DEF ManageInv, ManageTypeOK
    <3>3. QED
      BY <2>1, <3>1, <3>2 DEF RefuseChange, ManageInv, ShownInv
  <2>2. CASE AnswerLost(t)
    BY <2>2 DEF AnswerLost, ShownInv
  <2>3. QED
    BY <2>1, <2>2
<1>5. QED
  BY <1>2, <1>3, <1>4 DEF ManageInv

LEMMA ChangeAnsweredInv ==
  ASSUME ManageInv, NEW t \in Runs, ChangeAnswered(t)
  PROVE  ManageInv'
<1>1. CASE run[t].ok /\ run[t].op # "check"
  <2>1. /\ run' \in [Runs -> RunStates]
        /\ run'[t].pc = "loading" /\ run'[t].op = run[t].op
        /\ \A u \in Runs \ {t} : run'[u] = run[u]
    BY <1>1 DEF ChangeAnswered, ManageInv, ManageTypeOK, RunStates, RunSteps
  <2>2. ManageTypeOK'
    BY <1>1, <2>1 DEF ChangeAnswered, ManageInv, ManageTypeOK
  <2>3. FlagInv'
    BY <1>1, <2>1, StepFlagInv DEF ChangeAnswered, ManageInv
  <2>4. Pending(t)'
    BY <2>1 DEF Pending
  <2>5. QED
    BY <2>2, <2>3, <2>4 DEF ManageInv, ShownInv
<1>2. CASE ~(run[t].ok /\ run[t].op # "check")
  <2>1. End(t) /\ guarded' = guarded /\ ~Pending(t)
    BY <1>2 DEF ChangeAnswered, Pending
  <2>2. /\ run' \in [Runs -> RunStates] /\ busy' \in BOOLEAN /\ FlagInv'
        /\ run'[t].pc = "idle"
        /\ \A u \in Runs \ {t} : run'[u] = run[u]
    BY <2>1, EndInv DEF ManageInv
  <2>3. ManageTypeOK'
    BY <2>2 DEF ChangeAnswered, ManageInv, ManageTypeOK
  <2>4. \A u \in Runs : Pending(u) => Pending(u)'
    BY <2>1, <2>2 DEF Pending
  <2>5. latest # NoRun /\ run'[latest].pc = "loaded" => run'[latest] = run[latest]
    BY <2>2 DEF ManageInv, ManageTypeOK
  <2>6. QED
    BY <2>2, <2>3, <2>4, <2>5 DEF ChangeAnswered, ManageInv, ShownInv
<1>3. QED
  BY <1>1, <1>2

LEMMA ReadTableInv ==
  ASSUME ManageInv, NEW t \in Runs, ReadTable(t)
  PROVE  ManageInv'
<1>1. /\ run' \in [Runs -> RunStates]
      /\ run'[t].pc = "loaded" /\ run'[t].op = run[t].op /\ run'[t].read = table
      /\ \A u \in Runs \ {t} : run'[u] = run[u]
  BY DEF ReadTable, ManageInv, ManageTypeOK, RunStates, RunSteps
<1>2. ManageTypeOK'
  BY <1>1 DEF ReadTable, ManageInv, ManageTypeOK
<1>3. FlagInv'
  BY <1>1, StepFlagInv DEF ReadTable, ManageInv
<1>4. QED
  BY <1>1, <1>2, <1>3 DEF ReadTable, ManageInv, ShownInv

LEMMA TableArrivesInv ==
  ASSUME ManageInv, NEW t \in Runs, TableArrives(t)
  PROVE  ManageInv'
<1>1. End(t) /\ guarded' = guarded
  BY DEF TableArrives
<1>2. /\ run' \in [Runs -> RunStates] /\ busy' \in BOOLEAN /\ FlagInv'
      /\ run'[t].pc = "idle"
      /\ \A u \in Runs \ {t} : run'[u] = run[u]
  BY <1>1, EndInv DEF ManageInv
<1>3. ManageTypeOK'
  BY <1>2 DEF TableArrives, ManageInv, ManageTypeOK, RunStates
<1>4. \A u \in Runs : Pending(u) => Pending(u)'
  BY <1>2 DEF Pending, TableArrives
<1>5. ~stale' => rows' = table' \/ \E u \in Runs : Pending(u)'
  <2>1. CASE t = latest
    BY <1>4, <2>1, ManageAssumption DEF TableArrives, ManageInv, ShownInv
  <2>2. CASE t # latest
    BY <2>2 DEF TableArrives
  <2>3. QED
    BY <2>1, <2>2
<1>6. latest # NoRun /\ run'[latest].pc = "loaded" => run'[latest] = run[latest]
  BY <1>2 DEF ManageInv, ManageTypeOK
<1>7. QED
  BY <1>2, <1>3, <1>4, <1>5, <1>6 DEF TableArrives, ManageInv, ShownInv

LEMMA ReadFailsInv ==
  ASSUME ManageInv, NEW t \in Runs, ReadFails(t)
  PROVE  ManageInv'
<1>1. End(t) /\ guarded' = guarded
  BY DEF ReadFails
<1>2. /\ run' \in [Runs -> RunStates] /\ busy' \in BOOLEAN /\ FlagInv'
  BY <1>1, EndInv DEF ManageInv
<1>3. QED
  BY <1>2 DEF ReadFails, ManageInv, ManageTypeOK, ShownInv

LEMMA ManageStepInv ==
  ASSUME ManageInv, ManageStep \/ ManageServed
  PROVE  ManageInv'
  BY ButtonInv, ApplyInv, AnswerInv, ChangeAnsweredInv, ReadTableInv, TableArrivesInv,
     ReadFailsInv
  DEF ManageStep, ManageServed

\* One handler at most has set the flag.
LEMMA FlagIsOne == ManageInv => BusyMeansWork
<1>1. SUFFICES ASSUME ManageInv
               PROVE  BusyMeansWork
  OBVIOUS
<1>2. CASE busy
  <2>1. PICK t \in Runs : SetFlag(t)
    BY <1>1, <1>2 DEF ManageInv, FlagInv
  <2>2. {u \in Runs : SetFlag(u)} = {t}
    BY <1>1, <2>1 DEF ManageInv, FlagInv
  <2>3. QED
    BY <1>2, <2>2, FS_Singleton DEF BusyMeansWork
<1>3. CASE ~busy
  <2>1. {u \in Runs : SetFlag(u)} = {}
    BY <1>1, <1>3 DEF ManageInv, FlagInv
  <2>2. QED
    BY <1>3, <2>1, FS_EmptySet DEF BusyMeansWork
<1>4. QED
  BY <1>2, <1>3

LEMMA TableIsShown == ManageInv => ShowsOwnChanges
  BY DEF ManageInv, ShownInv, ShowsOwnChanges, Pending

----------------------------------------------------------------------------
(***************************************************************************)
(* The dashboard's list.                                                   *)
(***************************************************************************)
LEMMA TakeProperties ==
  ASSUME NEW S, NEW s \in Seq(S), NEW n \in Nat
  PROVE  /\ Take(s, n) \in Seq(S)
         /\ Len(Take(s, n)) = IF Len(s) < n THEN Len(s) ELSE n
         /\ \A i \in 1 .. Len(Take(s, n)) : Take(s, n)[i] = s[i]
  BY SubSeqProperties, Z3 DEF Take

\* A newer message is preceded by fewer.
LEMMA NewerProperties ==
  ASSUME NEW messages \in SUBSET Messages
  PROVE  /\ IsFiniteSet(messages) /\ Cardinality(messages) \in Nat
         /\ \A m \in messages :
              /\ IsFiniteSet(Newer(m, messages))
              /\ Cardinality(Newer(m, messages)) \in 0 .. Cardinality(messages) - 1
         /\ \A m, n \in messages :
              m < n => Cardinality(Newer(n, messages)) < Cardinality(Newer(m, messages))
<1>1. IsFiniteSet(messages) /\ messages \subseteq Nat
  <2>1. 1 \in Int /\ LastMessage \in Int /\ Messages \subseteq Nat
    BY LiveListAssumption DEF Messages
  <2>2. IsFiniteSet(Messages)
    BY <2>1, FS_Interval DEF Messages
  <2>3. QED
    BY <2>1, <2>2, FS_Subset
<1>2. Cardinality(messages) \in Nat
  BY <1>1, FS_CardinalityType
<1>3. ASSUME NEW m \in messages
      PROVE  /\ IsFiniteSet(Newer(m, messages))
             /\ Cardinality(Newer(m, messages)) \in 0 .. Cardinality(messages) - 1
  <2>1. Newer(m, messages) \in SUBSET messages /\ m \notin Newer(m, messages)
    BY <1>1 DEF Newer
  <2>2. /\ IsFiniteSet(Newer(m, messages))
        /\ Cardinality(Newer(m, messages)) <= Cardinality(messages)
        /\ Cardinality(Newer(m, messages)) # Cardinality(messages)
    BY <1>1, <2>1, FS_Subset
  <2>3. QED
    BY <1>2, <2>2, FS_CardinalityType
<1>4. ASSUME NEW m \in messages, NEW n \in messages, m < n
      PROVE  Cardinality(Newer(n, messages)) < Cardinality(Newer(m, messages))
  <2>1. /\ Newer(n, messages) \in SUBSET Newer(m, messages)
        /\ n \in Newer(m, messages) \ Newer(n, messages)
    <3>1. m \in Nat /\ n \in Nat /\ \A o \in messages : o \in Nat
      BY <1>1
    <3>2. \A o \in messages : o > n => o > m
      BY <1>4, <3>1
    <3>3. ~(n > n) /\ n > m
      BY <1>4, <3>1
    <3>4. QED
      BY <3>2, <3>3 DEF Newer
  <2>2. /\ Cardinality(Newer(n, messages)) <= Cardinality(Newer(m, messages))
        /\ Cardinality(Newer(n, messages)) # Cardinality(Newer(m, messages))
    BY <1>3, <2>1, FS_Subset
  <2>3. QED
    BY <1>2, <1>3, <2>2
<1>5. QED
  BY <1>1, <1>2, <1>3, <1>4

\* Every place of the order is taken, and every message has a place.
LEMMA NewestFirstProperties ==
  ASSUME NEW messages \in SUBSET Messages
  PROVE  /\ NewestFirst(messages) \in Seq(messages)
         /\ Len(NewestFirst(messages)) = Cardinality(messages)
         /\ Range(NewestFirst(messages)) = messages
         /\ \A i, j \in 1 .. Cardinality(messages) :
              i < j => NewestFirst(messages)[i] > NewestFirst(messages)[j]
<1> DEFINE size == Cardinality(messages)
           rank == [m \in messages |-> Cardinality(Newer(m, messages))]
           s == NewestFirst(messages)
<1>1. size \in Nat /\ rank \in [messages -> 0 .. size - 1] /\ messages \subseteq Nat
  BY NewerProperties, LiveListAssumption DEF Messages
<1>2. \A m, n \in messages : m < n => rank[n] < rank[m]
  BY NewerProperties
<1>3. \A m, n \in messages : rank[m] = rank[n] => m = n
  BY <1>1, <1>2
<1>4. rank \in Injection(messages, 0 .. size - 1)
  BY <1>1, <1>3 DEF Injection, IsInjective
<1>5. IsFiniteSet(0 .. size - 1) /\ Cardinality(0 .. size - 1) = size
  BY <1>1, FS_Interval
<1>6. rank \in Surjection(messages, 0 .. size - 1)
  BY <1>4, <1>5, FS_Injection
<1>7. \A i \in 1 .. size : s[i] \in messages /\ rank[s[i]] = i - 1
  <2> SUFFICES ASSUME NEW i \in 1 .. size
               PROVE  s[i] \in messages /\ rank[s[i]] = i - 1
    OBVIOUS
  <2>1. \E m \in messages : Cardinality(Newer(m, messages)) = i - 1
    <3>1. i - 1 \in 0 .. size - 1
      BY <1>1
    <3>2. \A k \in 0 .. size - 1 : \E m \in messages : rank[m] = k
      BY <1>6 DEF Surjection
    <3>3. QED
      BY <3>1, <3>2
  <2>2. s[i] = CHOOSE m \in messages : Cardinality(Newer(m, messages)) = i - 1
    BY DEF NewestFirst
  <2>3. QED
    BY <2>1, <2>2
<1>8. s \in [1 .. size -> messages]
  BY <1>7 DEF NewestFirst
<1>9. s \in Seq(messages) /\ Len(s) = size
  BY <1>1, <1>8
<1>10. \A m \in messages : \E i \in 1 .. size : s[i] = m
  <2> SUFFICES ASSUME NEW m \in messages
               PROVE  \E i \in 1 .. size : s[i] = m
    OBVIOUS
  <2>1. rank[m] + 1 \in 1 .. size
    BY <1>1
  <2>2. s[rank[m] + 1] \in messages /\ rank[s[rank[m] + 1]] = rank[m]
    BY <1>1, <1>7, <2>1
  <2>3. QED
    BY <1>3, <2>1, <2>2
<1>11. Range(s) = messages
  BY <1>8, <1>10 DEF Range
<1>12. \A i, j \in 1 .. size : i < j => s[i] > s[j]
  <2> SUFFICES ASSUME NEW i \in 1 .. size, NEW j \in 1 .. size, i < j
               PROVE  s[i] > s[j]
    OBVIOUS
  <2>1. /\ s[i] \in messages /\ s[j] \in messages
        /\ s[i] \in Nat /\ s[j] \in Nat
        /\ rank[s[i]] = i - 1 /\ rank[s[j]] = j - 1
    BY <1>1, <1>7
  <2>2. ~(rank[s[j]] < rank[s[i]]) /\ rank[s[j]] # rank[s[i]]
    BY <1>1, <2>1
  <2>3. ~(s[i] < s[j]) /\ s[i] # s[j]
    BY <1>2, <2>1, <2>2
  <2>4. QED
    BY <2>1, <2>3
<1>13. QED
  BY <1>9, <1>11, <1>12

\* The first page is cut from the order, and holds everything if it is not full.
LEMMA FirstPageProperties ==
  ASSUME NEW messages \in SUBSET Messages
  PROVE  /\ FirstPage(messages) \in Seq(messages)
         /\ Len(FirstPage(messages)) <= MaxItems
         /\ \A i, j \in 1 .. Len(FirstPage(messages)) :
              i < j => FirstPage(messages)[i] > FirstPage(messages)[j]
         /\ Len(FirstPage(messages)) = MaxItems \/ Range(FirstPage(messages)) = messages
<1> DEFINE s == NewestFirst(messages)
<1>1. s \in Seq(messages) /\ Len(s) = Cardinality(messages) /\ Range(s) = messages
  BY NewestFirstProperties
<1>2. Cardinality(messages) \in Nat
  BY NewerProperties
<1>3. /\ FirstPage(messages) \in Seq(messages)
      /\ Len(FirstPage(messages)) = IF Len(s) < MaxItems THEN Len(s) ELSE MaxItems
      /\ \A i \in 1 .. Len(FirstPage(messages)) : FirstPage(messages)[i] = s[i]
  BY <1>1, TakeProperties, LiveListAssumption DEF FirstPage
<1>4. \A i, j \in 1 .. Len(FirstPage(messages)) :
        i < j => FirstPage(messages)[i] > FirstPage(messages)[j]
  BY <1>1, <1>2, <1>3, NewestFirstProperties, LiveListAssumption
<1>5. Len(s) < MaxItems => FirstPage(messages) = s
  BY <1>1, <1>3
<1>6. QED
  BY <1>1, <1>2, <1>3, <1>4, <1>5, LiveListAssumption

\* What a page that arrives late may hide is known: nothing counts as received
\* before it, as long as it has not arrived.
LiveInv ==
  /\ LiveTypeOK
  /\ events \in Seq(Messages) /\ list \in Seq(Messages)
  /\ first.read \subseteq saved
  /\ first.pc # "done" => early = {}
  /\ NoDuplicates
  /\ ReceivedIsListed

LEMMA SeqItems ==
  ASSUME NEW S, NEW s \in Seq(S)
  PROVE  /\ Range(s) \subseteq S
         /\ \A i \in 1 .. Len(s) : s[i] \in Range(s)
         /\ \A x \in Range(s) : \E i \in 1 .. Len(s) : s[i] = x
<1>1. DOMAIN s = 1 .. Len(s) /\ \A i \in 1 .. Len(s) : s[i] \in S
  OBVIOUS
<1>2. QED
  BY <1>1 DEF Range

LEMMA RangeWithin ==
  ASSUME NEW S, NEW s \in Seq(S), NEW T, \A i \in 1 .. Len(s) : s[i] \in T
  PROVE  Range(s) \subseteq T
  BY SeqItems

LEMMA LiveInitInv == LiveInit => LiveInv
  BY LiveListAssumption
  DEF LiveInit, LiveInv, LiveTypeOK, FirstPages, NoDuplicates, ReceivedIsListed, Displayed, Range

LEMMA LiveMountInv ==
  ASSUME NEW messages \in SUBSET Messages, LiveMount(messages)
  PROVE  LiveInv'
  BY LiveListAssumption
  DEF LiveMount, LiveInv, LiveTypeOK, FirstPages, NoDuplicates, ReceivedIsListed, Displayed, Range

LEMMA SaveMessageInv == LiveInv /\ SaveMessage => LiveInv'
  BY DEF SaveMessage, LiveInv, LiveTypeOK, NoDuplicates, ReceivedIsListed, Displayed

LEMMA AnnounceInv ==
  ASSUME LiveInv, Announce
  PROVE  LiveInv'
<1>1. PICK m \in saved \ announced :
        /\ announced' = announced \cup {m}
        /\ events' = IF stream = "open" THEN Append(events, m) ELSE events
  BY DEF Announce
<1>2. m \in Messages
  BY DEF LiveInv, LiveTypeOK
<1>3. /\ Append(events, m) \in Seq(Messages)
      /\ Range(Append(events, m)) \subseteq Range(events) \cup {m}
  <2>1. events \in Seq(Messages)
    BY DEF LiveInv
  <2>2. /\ Append(events, m) \in Seq(Messages)
        /\ Len(Append(events, m)) = Len(events) + 1
        /\ \A i \in 1 .. Len(events) : Append(events, m)[i] = events[i]
        /\ Append(events, m)[Len(events) + 1] = m
    BY <1>2, <2>1, AppendProperties
  <2>3. \A i \in 1 .. Len(Append(events, m)) :
          Append(events, m)[i] \in Range(events) \cup {m}
    BY <2>1, <2>2, SeqItems
  <2>4. QED
    BY <2>2, <2>3, RangeWithin
<1>4. events' \in Seq(Messages) /\ Range(events') \subseteq announced'
  BY <1>1, <1>3 DEF LiveInv, LiveTypeOK
<1>5. QED
  BY <1>1, <1>4 DEF Announce, LiveInv, LiveTypeOK, NoDuplicates, ReceivedIsListed, Displayed

LEMMA StreamInv ==
  LiveInv /\ (StreamOpens \/ StreamBreaks \/ StreamRefused) => LiveInv'
<1>1. Range(<<>>) = {} /\ <<>> \in Seq(Messages)
  BY DEF Range
<1>2. QED
  BY <1>1
  DEF StreamOpens, StreamBreaks, StreamRefused, LiveInv, LiveTypeOK, NoDuplicates,
      ReceivedIsListed, Displayed

LEMMA OnMessageInv ==
  ASSUME LiveInv, OnMessage
  PROVE  LiveInv'
<1>1. /\ Tail(events) \in Seq(Messages)
      /\ Head(events) \in Range(events)
      /\ Range(Tail(events)) \subseteq Range(events)
  <2>1. events \in Seq(Messages) /\ events # <<>>
    BY DEF LiveInv, OnMessage
  <2>2. /\ Tail(events) \in Seq(Messages)
        /\ Len(Tail(events)) = Len(events) - 1
        /\ \A i \in 1 .. Len(Tail(events)) : Tail(events)[i] = events[i + 1]
        /\ 1 \in 1 .. Len(events) /\ Head(events) = events[1]
    BY <2>1, HeadTailProperties
  <2>3. \A i \in 1 .. Len(Tail(events)) : Tail(events)[i] \in Range(events)
    <3>1. \A i \in 1 .. Len(Tail(events)) : i + 1 \in 1 .. Len(events)
      BY <2>1, <2>2
    <3>2. QED
      BY <2>1, <2>2, <3>1, SeqItems
  <2>4. QED
    BY <2>1, <2>2, <2>3, SeqItems, RangeWithin
<1>2. QED
  BY <1>1 DEF OnMessage, LiveInv, LiveTypeOK, NoDuplicates, ReceivedIsListed, Displayed

\* A message put in front pushes one out only of a list that is full.
LEMMA PrependProperties ==
  ASSUME LiveInv, NEW m \in saved, Prepend(m)
  PROVE  /\ list' \in Seq(Messages) /\ Len(list') <= MaxItems
         /\ Range(list') \subseteq Range(list) \cup {m}
         /\ m \in Range(list')
         /\ Len(list') = MaxItems \/ Range(list) \subseteq Range(list')
         /\ NoDuplicates'
<1> DEFINE longer == <<m>> \o list
<1>1. CASE m \in Range(list)
  BY <1>1 DEF Prepend, LiveInv, LiveTypeOK, NoDuplicates
<1>2. CASE m \notin Range(list)
  <2>1. m \in Messages /\ list \in Seq(Messages) /\ MaxItems \in Nat \ {0}
    BY LiveListAssumption DEF LiveInv, LiveTypeOK
  <2>2. /\ longer \in Seq(Messages) /\ Len(longer) = Len(list) + 1
        /\ longer[1] = m
        /\ \A i \in 2 .. Len(longer) : longer[i] = list[i - 1]
    BY <2>1
  <2>3. list' = Take(longer, MaxItems)
    BY <1>2 DEF Prepend
  <2>4. /\ list' \in Seq(Messages)
        /\ Len(list') = IF Len(list) + 1 < MaxItems THEN Len(list) + 1 ELSE MaxItems
        /\ \A i \in 1 .. Len(list') : list'[i] = longer[i]
    BY <2>1, <2>2, <2>3, TakeProperties
  <2>5. list'[1] = m /\ \A i \in 2 .. Len(list') : i - 1 \in 1 .. Len(list) /\ list'[i] = list[i - 1]
    BY <2>1, <2>2, <2>4
  <2>6. Range(list') \subseteq Range(list) \cup {m} /\ m \in Range(list')
    <3>1. 1 \in 1 .. Len(list')
      BY <2>1, <2>4
    <3>2. \A i \in 1 .. Len(list') : list'[i] \in Range(list) \cup {m}
      <4> SUFFICES ASSUME NEW i \in 1 .. Len(list')
                   PROVE  list'[i] \in Range(list) \cup {m}
        OBVIOUS
      <4>1. CASE i = 1
        BY <2>5, <4>1
      <4>2. CASE i # 1
        <5>1. i \in 2 .. Len(list')
          BY <2>4, <4>2
        <5>2. QED
          BY <2>1, <2>5, <5>1, SeqItems
      <4>3. QED
        BY <4>1, <4>2
    <3>3. QED
      BY <2>4, <2>5, <3>1, <3>2, SeqItems, RangeWithin
  <2>7. Len(list') = MaxItems \/ Range(list) \subseteq Range(list')
    <3> SUFFICES ASSUME Len(list') # MaxItems, NEW i \in 1 .. Len(list)
                 PROVE  list[i] \in Range(list')
      BY <2>1, SeqItems
    <3>1. i + 1 \in 2 .. Len(list') /\ list'[i + 1] = list[i]
      BY <2>1, <2>4, <2>5
    <3>2. QED
      BY <2>4, <3>1, SeqItems
  <2>8. NoDuplicates'
    <3>1. \A i \in 1 .. Len(list) : list[i] # m
      BY <1>2, <2>1, SeqItems
    <3>2. \A i, j \in 2 .. Len(list') : list'[i] = list'[j] => i = j
      <4> SUFFICES ASSUME NEW i \in 2 .. Len(list'), NEW j \in 2 .. Len(list'),
                          list'[i] = list'[j]
                   PROVE  i = j
        OBVIOUS
      <4>1. /\ i - 1 \in 1 .. Len(list) /\ j - 1 \in 1 .. Len(list)
            /\ list[i - 1] = list[j - 1]
        BY <2>5
      <4>2. i - 1 = j - 1
        BY <4>1 DEF LiveInv, NoDuplicates
      <4>3. QED
        BY <4>2
    <3>3. \A i \in 2 .. Len(list') : list'[i] # list'[1]
      BY <2>1, <2>5, <3>1
    <3>4. QED
      BY <2>1, <2>4, <3>2, <3>3 DEF NoDuplicates
  <2>9. QED
    BY <2>1, <2>4, <2>6, <2>7, <2>8
<1>3. QED
  BY <1>1, <1>2

LEMMA FetchedInv ==
  ASSUME LiveInv, NEW m \in fetching, Fetched(m)
  PROVE  LiveInv'
<1>1. m \in announced /\ m \in saved
  BY DEF LiveInv, LiveTypeOK
<1>2. /\ list' \in Seq(Messages) /\ Len(list') <= MaxItems
      /\ Range(list') \subseteq Range(list) \cup {m}
      /\ m \in Range(list')
      /\ Len(list') = MaxItems \/ Range(list) \subseteq Range(list')
      /\ NoDuplicates'
  BY <1>1, PrependProperties DEF Fetched
<1>3. LiveTypeOK'
  BY <1>1, <1>2 DEF Fetched, LiveInv, LiveTypeOK
<1>4. Len(list) = MaxItems => Len(list') = MaxItems
  <2>1. CASE m \in Range(list)
    BY <2>1 DEF Fetched, Prepend
  <2>2. CASE m \notin Range(list)
    <3>1. /\ <<m>> \o list \in Seq(Messages) /\ Len(<<m>> \o list) = Len(list) + 1
          /\ MaxItems \in Nat /\ Len(list) \in Nat
      BY <1>1, LiveListAssumption DEF LiveInv, LiveTypeOK
    <3>2. Len(list') = IF Len(list) + 1 < MaxItems THEN Len(list) + 1 ELSE MaxItems
      BY <2>2, <3>1, TakeProperties DEF Fetched, Prepend
    <3>3. QED
      BY <3>1, <3>2
  <2>3. QED
    BY <2>1, <2>2
<1>5. ReceivedIsListed'
  BY <1>2, <1>4 DEF Fetched, LiveInv, ReceivedIsListed, Displayed
<1>6. QED
  BY <1>2, <1>3, <1>5 DEF Fetched, LiveInv

LEMMA FetchFailsInv ==
  ASSUME LiveInv, NEW m \in fetching, FetchFails(m)
  PROVE  LiveInv'
  BY DEF FetchFails, LiveInv, LiveTypeOK, NoDuplicates, ReceivedIsListed, Displayed

\* Until it arrives, the first page hides nothing.
LEMMA FirstPageServedInv == LiveInv /\ FirstPageServed => LiveInv'
  BY DEF FirstPageServed, LiveInv, LiveTypeOK, FirstPages, NoDuplicates, ReceivedIsListed, Displayed

LEMMA FirstPageFailsInv == LiveInv /\ FirstPageFails => LiveInv'
  BY DEF FirstPageFails, LiveInv, LiveTypeOK, FirstPages, NoDuplicates, ReceivedIsListed, Displayed

LEMMA FirstPageArrivesInv ==
  ASSUME LiveInv, FirstPageArrives
  PROVE  LiveInv'
<1>1. first.read \in SUBSET Messages /\ first.read \subseteq saved
  BY DEF LiveInv, LiveTypeOK
<1>2. /\ list' \in Seq(first.read) /\ Len(list') <= MaxItems
      /\ \A i, j \in 1 .. Len(list') : i < j => list'[i] > list'[j]
      /\ Len(list') = MaxItems \/ Range(list') = first.read
  BY <1>1, FirstPageProperties DEF FirstPageArrives
<1>3. list' \in Seq(Messages) /\ Range(list') \subseteq first.read
  BY <1>1, <1>2, SeqItems
<1>4. LiveTypeOK'
  BY <1>1, <1>2, <1>3 DEF FirstPageArrives, LiveInv, LiveTypeOK, FirstPages
<1>5. NoDuplicates'
  <2> SUFFICES ASSUME NEW i \in 1 .. Len(list'), NEW j \in 1 .. Len(list'), i < j
               PROVE  list'[i] # list'[j]
    BY <1>3 DEF NoDuplicates
  <2>1. list'[i] \in Nat /\ list'[j] \in Nat
    BY <1>3, LiveListAssumption DEF Messages
  <2>2. QED
    BY <1>2, <2>1
<1>6. ReceivedIsListed'
  BY <1>2 DEF FirstPageArrives, LiveInv, LiveTypeOK, FirstPages, ReceivedIsListed, Displayed
<1>7. QED
  BY <1>1, <1>3, <1>4, <1>5, <1>6 DEF FirstPageArrives, LiveInv, LiveTypeOK, FirstPages

LEMMA LiveStepInv ==
  ASSUME LiveInv, LiveStep \/ LiveServed
  PROVE  LiveInv'
  BY SaveMessageInv, AnnounceInv, StreamInv, OnMessageInv, FetchedInv, FetchFailsInv,
     FirstPageServedInv, FirstPageArrivesInv, FirstPageFailsInv
  DEF LiveStep, LiveServed

----------------------------------------------------------------------------
(***************************************************************************)
(* The console.                                                            *)
(***************************************************************************)
LEMMA MountInv ==
  ASSUME NEW p, NEW k, Mount(p, k) \/ ToLogin
  PROVE  SearchInv' /\ SearchTypeOK' /\ ManageInv' /\ LiveInv'
<1>1. NoTable \in Tables /\ {} \in SUBSET Messages
  BY NoRunYetType
<1>2. SearchMount
  BY DEF Mount, ToLogin
<1>3. \E all \in BOOLEAN, stored \in Tables : ManageMount(all, stored)
  BY <1>1 DEF Mount, ToLogin, ManageReset
<1>4. \E messages \in SUBSET Messages : LiveMount(messages)
  BY <1>1 DEF Mount, ToLogin, LiveReset
<1>5. QED
  BY <1>2, <1>3, <1>4, SearchMountInv, SearchMountTypes, ManageMountInv, LiveMountInv

LEMMA SearchUnchanged ==
  SearchInv /\ SearchTypeOK /\ UNCHANGED searchVars => SearchInv' /\ SearchTypeOK'
  BY DEF SearchInv, SearchTypeOK, searchVars

LEMMA ManageUnchanged == ManageInv /\ UNCHANGED manageVars => ManageInv'
  BY DEF ManageInv, ManageTypeOK, FlagInv, ShownInv, SetFlag, Flagged, Pending, manageVars

LEMMA LiveUnchanged == LiveInv /\ UNCHANGED liveVars => LiveInv'
  BY DEF LiveInv, LiveTypeOK, NoDuplicates, ReceivedIsListed, Displayed, liveVars

\* The pages, each with the invariant of its module.
PagesInv == SearchInv /\ SearchTypeOK /\ ManageInv /\ LiveInv

LEMMA PagesStepInv ==
  ASSUME PagesInv, [ConsoleNext]_consoleVars
  PROVE  PagesInv'
<1>1. CASE (\E p \in Pages, k \in Tokens \cup {NoToken, token} : Mount(p, k)) \/ ToLogin
  BY <1>1, MountInv DEF PagesInv
<1>2. CASE UNCHANGED pageVars
  BY <1>2, SearchUnchanged, ManageUnchanged, LiveUnchanged DEF PagesInv, pageVars
<1>3. CASE PageStep
  <2>1. CASE (LiveStep \/ LiveServed) /\ UNCHANGED <<searchVars, manageVars>>
    BY <2>1, LiveStepInv, SearchUnchanged, ManageUnchanged DEF PagesInv
  <2>2. CASE (SearchStep \/ SearchServed) /\ UNCHANGED <<liveVars, manageVars>>
    BY <2>2, SearchStepInv, SearchStepTypes, ManageUnchanged, LiveUnchanged DEF PagesInv
  <2>3. CASE (ManageStep \/ ManageServed) /\ UNCHANGED <<liveVars, searchVars>>
    BY <2>3, ManageStepInv, SearchUnchanged, LiveUnchanged DEF PagesInv
  <2>4. QED
    BY <1>3, <2>1, <2>2, <2>3 DEF PageStep
<1>4. (\E p \in Pages : Visit(p)) \/ (\E p \in Pages \cup {"login"} : Load(p))
        => (\E p \in Pages : Mount(p, token)) \/ ToLogin
  BY DEF Visit, Load
<1>5. Login => \E p \in Pages, k \in Tokens : Mount(p, k)
  BY DEF Login, Pages
<1>6. Logout \/ Hear401 => ToLogin
  BY DEF Logout, Hear401, Unauthorized
<1>7. LoginRefused \/ ClearedElsewhere \/ LoginElsewhere \/ Expire \/ LateEnds
        \/ UNCHANGED consoleVars => UNCHANGED pageVars
  BY DEF LoginRefused, ClearedElsewhere, LoginElsewhere, TokenChanges, Expire, LateEnds,
         consoleVars
<1>8. QED
  BY <1>1, <1>2, <1>3, <1>4, <1>5, <1>6, <1>7 DEF ConsoleNext

LEMMA PagesInitInv == ConsoleInit => PagesInv
  BY SearchInitInv, SearchFirstTypes, ManageInitInv, LiveInitInv DEF ConsoleInit, PagesInv

LEMMA PagesAlways == ConsoleSpec => []PagesInv
  BY PagesInitInv, PagesStepInv, PTL DEF ConsoleSpec

\* The tokens that requests carry were issued, or there was none.
SessionTypes ==
  /\ page \in Pages \cup {"login"}
  /\ token \in issued \cup {NoToken}
  /\ issued \subseteq Tokens /\ expired \subseteq issued
  /\ carried \cup late \subseteq issued \cup {NoToken}

LEMMA SessionStepTypes ==
  ASSUME SessionTypes, [ConsoleNext]_consoleVars
  PROVE  SessionTypes'
<1>1. CASE Login
  BY <1>1 DEF SessionTypes, Login, Issue, Mount, Pages
<1>2. CASE (\E p \in Pages : Visit(p)) \/ (\E p \in Pages \cup {"login"} : Load(p))
  BY <1>2 DEF SessionTypes, Visit, Load, Mount, ToLogin
<1>3. CASE \/ Logout \/ LoginRefused \/ ClearedElsewhere \/ LoginElsewhere \/ Hear401
  BY <1>3 DEF SessionTypes, Logout, LoginRefused, ClearedElsewhere, LoginElsewhere, Issue,
              TokenChanges, Hear401, Unauthorized, ToLogin
<1>4. CASE Expire \/ LateEnds \/ PageStep \/ UNCHANGED consoleVars
  BY <1>4 DEF SessionTypes, Expire, LateEnds, PageStep, consoleVars, sessionVars
<1>5. QED
  BY <1>1, <1>2, <1>3, <1>4 DEF ConsoleNext

\* Every variable of the console stays within its type, whichever page is shown.
THEOREM ConsoleTypes == ConsoleSpec => []ConsoleTypeOK
<1>1. ConsoleInit => SessionTypes
  BY DEF ConsoleInit, SessionTypes
<1>2. PagesInv /\ SessionTypes => ConsoleTypeOK
  BY DEF PagesInv, LiveInv, ManageInv, SessionTypes, ConsoleTypeOK
<1>3. QED
  BY <1>1, <1>2, PagesAlways, SessionStepTypes, PTL DEF ConsoleSpec

\* A message appears once in the dashboard's list, whether the first page or an
\* event brought it (latest-messages.tsx).
THEOREM ConsoleListsOnce == ConsoleSpec => []NoDuplicates
  BY PagesAlways, PTL DEF PagesInv, LiveInv

\* A received message stays displayed until others fill the list, except for what
\* a first page read before it was saved hides when it arrives, and unless the
\* first page failed, whose error then replaces the list (latest-messages.tsx).
THEOREM ConsoleListsReceived == ConsoleSpec => []ReceivedIsListed
  BY PagesAlways, PTL DEF PagesInv, LiveInv

\* A page that searches shows what is wanted when nothing is under way (the
\* last answer wins, messages/page.tsx and notifications/page.tsx).
THEOREM ConsoleShowsWanted == ConsoleSpec => []ShownIsWanted
<1>1. PagesInv => ShownIsWanted
  BY SearchInvShown DEF PagesInv
<1>2. QED
  BY <1>1, PagesAlways, PTL

\* A page that changes a table shows it as it is when nothing is under way.
THEOREM ConsoleShowsChanges == ConsoleSpec => []ShowsOwnChanges
<1>1. PagesInv => ShowsOwnChanges
  BY TableIsShown DEF PagesInv
<1>2. QED
  BY <1>1, PagesAlways, PTL

\* The buttons are disabled only while one handler that disabled them runs.
THEOREM ConsoleBusyMeansWork == ConsoleSpec => []BusyMeansWork
<1>1. PagesInv => BusyMeansWork
  BY FlagIsOne DEF PagesInv
<1>2. QED
  BY <1>1, PagesAlways, PTL

\* A verified token is removed by logging out, by wrong credentials, in another
\* tab, or by the 401 of a request that was sent with an older token or none
\* (request() of lib/api/client.ts).
THEOREM ConsoleSessionEnds == ConsoleSpec => SessionEnds
<1>1. ASSUME [ConsoleNext]_consoleVars, Verified(token), token' = NoToken
      PROVE  \/ Logout \/ LoginRefused \/ ClearedElsewhere
             \/ \E k \in (carried \cup late) \ {token} : ~Verified(k)
  <2>1. CASE Login \/ LoginElsewhere
    BY <1>1, <2>1, ConsoleAssumption DEF Login, LoginElsewhere, TokenChanges
  <2>2. CASE Hear401
    BY <1>1, <2>2 DEF Hear401, Unauthorized
  <2>3. CASE \/ Expire \/ LateEnds \/ PageStep \/ UNCHANGED consoleVars
             \/ \E p \in Pages \cup {"login"} : Visit(p) \/ Load(p)
    BY <1>1, <2>3 DEF Expire, LateEnds, PageStep, Visit, Load, Verified, consoleVars, sessionVars
  <2>4. QED
    BY <1>1, <2>1, <2>2, <2>3 DEF ConsoleNext
<1>2. [ConsoleNext]_consoleVars
        => [Verified(token) /\ token' = NoToken
              => \/ Logout \/ LoginRefused \/ ClearedElsewhere
                 \/ \E k \in (carried \cup late) \ {token} : ~Verified(k)]_consoleVars
  BY <1>1
<1>3. QED
  BY <1>2, PTL DEF ConsoleSpec, SessionEnds
=============================================================================
