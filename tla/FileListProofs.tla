--------------------------- MODULE FileListProofs ---------------------------
(***************************************************************************)
(* Proofs about FileList for any users, any tasks that fill the cache, any *)
(* files of the job and any requests.                                      *)
(***************************************************************************)
EXTENDS FileList, SequenceTheorems, TLAPS

-----------------------------------------------------------------------------
(* The inductive invariant                                                 *)

\* What the progress of the job tells: the completion row, a request that has
\* read it, and a task that fills the cache exist only after the job has ended.
JobInv ==
    /\ reports # "none" \/ row => files = FinalFiles
    /\ \A t \in Tasks : begun[t] \in {EarlyFiles, files}
    /\ \A t \in Tasks : finished[t] => files = FinalFiles /\ begun[t] = FinalFiles
    /\ \A t \in Users : kind[t] = "user"
    /\ \A t \in Fillers :
          /\ kind[t] # "user" /\ want[t] = Root
          /\ task[t] # "idle" => files = FinalFiles

\* Nothing is under way for a task that has not begun.
FreshInv ==
    \A t \in Tasks : task[t] = "idle" =>
        /\ t \notin asks /\ \A a \in answers : a.to # t
        /\ ~listing[t].ready

\* The states of the job's files that a list for a task may show
Seen(t) == IF t \in Fillers THEN {FinalFiles} ELSE {begun[t], files}

Whole(t, s) == \E fs \in Seen(t) : s = Listing(fs, want[t])

\* It is all of the list, or a part when its FILE_LIST was cut.
Right(t, s) ==
    \E fs \in Seen(t) : /\ s \subseteq Listing(fs, want[t])
                        /\ t \notin cut => s = Listing(fs, want[t])

\* Every list that the remote cluster sends is whole, every list received is
\* right, and a list or an error is there when a request takes one.
AnswersWhole == \A a \in answers : a.ok => Whole(a.to, a.files)

ListingsRight ==
    \A t \in Tasks : listing[t].ready /\ ~listing[t].error => Right(t, listing[t].files)

TakesWhole ==
    \A t \in Tasks : task[t] = "take" /\ kind[t] # "completion" =>
        listing[t].ready \/ listing[t].error

\* A list that a task has taken is right until it is used, and is stored only
\* by a task that has asked for all files of the finished job.
Using == {"remove", "store", "store first", "finish"}

ResultsRight ==
    \A t \in Tasks : task[t] \in Using /\ result[t].ok => Right(t, result[t].files)

StoresRoot ==
    /\ \A t \in Tasks : task[t] \in {"store", "store first", "finish"} => result[t].ok
    /\ \A t \in Tasks : task[t] \in {"store", "store first"} =>
          \/ t \in Fillers
          \/ finished[t] /\ IsRoot(want[t])

CacheInv ==
    /\ cache \subseteq Listing(FinalFiles, Root)
    /\ ~cacheCut => cache \in {{}, Listing(FinalFiles, Root)}

ListInv ==
    /\ ListTypeOK /\ JobInv /\ FreshInv
    /\ AnswersWhole /\ ListingsRight /\ TakesWhole
    /\ ResultsRight /\ StoresRoot /\ CacheInv

-----------------------------------------------------------------------------
(* What filter_files keeps of a listing                                    *)

\* The length of a sequence without its last element.
LEMMA LastLen ==
    ASSUME NEW n \in Nat, n >= 1 PROVE (IF 1 <= n - 1 THEN n - 1 - 1 + 1 ELSE 0) = n - 1
<1>1. CASE n = 1
  BY <1>1
<1>2. CASE n > 1
  BY <1>2
<1> QED
  BY <1>1, <1>2

\* The parent of a file and its leading components
LEMMA ParentShape ==
    ASSUME NEW f \in Seq(STRING), f # <<>>
    PROVE  /\ Len(f) \in Nat /\ Len(f) >= 1
           /\ Parent(f) \in Seq(STRING) /\ Len(Parent(f)) = Len(f) - 1
           /\ \A i \in 1..(Len(f) - 1) : Parent(f)[i] = f[i]
<1>1. Len(f) \in Nat /\ Len(f) >= 1
  OBVIOUS
<1>2. \A i \in 1..(Len(f) - 1) : f[i] \in STRING
  BY <1>1
<1>3. /\ SubSeq(f, 1, Len(f) - 1) \in Seq(STRING)
      /\ Len(SubSeq(f, 1, Len(f) - 1)) = IF 1 <= Len(f) - 1 THEN Len(f) - 1 - 1 + 1 ELSE 0
      /\ \A i \in 1..(Len(f) - 1 - 1 + 1) : SubSeq(f, 1, Len(f) - 1)[i] = f[1 + i - 1]
  BY <1>1, <1>2, SubSeqProperties
<1>4. Len(Parent(f)) = Len(f) - 1
  <2>1. (IF 1 <= Len(f) - 1 THEN Len(f) - 1 - 1 + 1 ELSE 0) = Len(f) - 1
    BY <1>1, LastLen
  <2> QED
    BY <1>3, <2>1 DEF Parent
<1>5. ASSUME NEW i \in 1..(Len(f) - 1) PROVE Parent(f)[i] = f[i]
  <2>1. 1 + i - 1 = i /\ i \in 1..(Len(f) - 1 - 1 + 1)
    BY <1>1
  <2> QED
    BY <1>3, <2>1 DEF Parent
<1> QED
  BY <1>1, <1>3, <1>4, <1>5 DEF Parent

\* The first components of a longer path are those of the directory.
LEMMA PrefixShape ==
    ASSUME NEW f \in Seq(STRING), NEW dir \in Seq(STRING), Len(dir) <= Len(f)
    PROVE  SubSeq(f, 1, Len(dir)) = dir <=> \A i \in 1..Len(dir) : f[i] = dir[i]
<1>1. Len(f) \in Nat /\ Len(dir) \in Nat
  OBVIOUS
<1>2. \A i \in 1..Len(dir) : f[i] \in STRING
  BY <1>1
<1>3. /\ SubSeq(f, 1, Len(dir)) \in Seq(STRING)
      /\ Len(SubSeq(f, 1, Len(dir))) = IF 1 <= Len(dir) THEN Len(dir) - 1 + 1 ELSE 0
      /\ \A i \in 1..(Len(dir) - 1 + 1) : SubSeq(f, 1, Len(dir))[i] = f[1 + i - 1]
  BY <1>1, <1>2, SubSeqProperties
<1>4. Len(SubSeq(f, 1, Len(dir))) = Len(dir)
  BY <1>1, <1>3
<1>5. ASSUME NEW i \in 1..Len(dir) PROVE SubSeq(f, 1, Len(dir))[i] = f[i]
  <2>1. 1 + i - 1 = i /\ i \in 1..(Len(dir) - 1 + 1)
    BY <1>1
  <2> QED
    BY <1>3, <2>1
<1>6. ASSUME SubSeq(f, 1, Len(dir)) = dir PROVE \A i \in 1..Len(dir) : f[i] = dir[i]
  BY <1>5, <1>6
<1>7. ASSUME \A i \in 1..Len(dir) : f[i] = dir[i] PROVE SubSeq(f, 1, Len(dir)) = dir
  BY <1>3, <1>4, <1>5, <1>7, SeqEqual
<1> QED
  BY <1>6, <1>7

\* A file, by the test of filter_files and by where it lies
Kept(f, dir, recursive) ==
    f # <<>> /\ IF recursive THEN IsWithin(Parent(f), dir) ELSE Parent(f) = dir

Below(f, dir, recursive) ==
    /\ Len(f) > Len(dir) /\ SubSeq(f, 1, Len(dir)) = dir
    /\ recursive \/ Len(f) = Len(dir) + 1

\* The test of filter_files is the reference: below the directory, directly
\* or, when recursive, at any depth.
LEMMA KeptIsBelow ==
    ASSUME NEW f \in Seq(STRING), NEW dir \in Seq(STRING), NEW recursive \in BOOLEAN
    PROVE  Kept(f, dir, recursive) <=> Below(f, dir, recursive)
<1>0. Len(f) \in Nat /\ Len(dir) \in Nat /\ (f = <<>> => Len(f) = 0)
  OBVIOUS
<1>1. CASE f = <<>>
  BY <1>0, <1>1 DEF Kept, Below
<1>2. CASE f # <<>>
  <2>1. /\ Len(f) >= 1 /\ Parent(f) \in Seq(STRING) /\ Len(Parent(f)) = Len(f) - 1
        /\ \A i \in 1..(Len(f) - 1) : Parent(f)[i] = f[i]
    BY <1>2, ParentShape
  <2>2. IsWithin(Parent(f), dir) <=>
           Len(dir) < Len(f) /\ \A i \in 1..Len(dir) : f[i] = dir[i]
    <3>1. Len(dir) <= Len(Parent(f)) <=> Len(dir) < Len(f)
      BY <1>0, <2>1
    <3>2. ASSUME Len(dir) < Len(f), NEW i \in 1..Len(dir) PROVE Parent(f)[i] = f[i]
      BY <1>0, <2>1, <3>2
    <3> QED
      BY <3>1, <3>2 DEF IsWithin
  <2>3. Len(dir) < Len(f) =>
           (SubSeq(f, 1, Len(dir)) = dir <=> \A i \in 1..Len(dir) : f[i] = dir[i])
    <3>1. Len(dir) < Len(f) => Len(dir) <= Len(f)
      BY <1>0
    <3> QED
      BY <3>1, PrefixShape
  <2>4. Parent(f) = dir <=> IsWithin(Parent(f), dir) /\ Len(f) = Len(dir) + 1
    <3>1. ASSUME Parent(f) = dir PROVE IsWithin(Parent(f), dir) /\ Len(f) = Len(dir) + 1
      BY <1>0, <2>1, <3>1 DEF IsWithin
    <3>2. ASSUME IsWithin(Parent(f), dir), Len(f) = Len(dir) + 1 PROVE Parent(f) = dir
      <4>1. Len(Parent(f)) = Len(dir)
        BY <1>0, <2>1, <3>2
      <4>2. \A i \in 1..Len(dir) : Parent(f)[i] = dir[i]
        BY <3>2 DEF IsWithin
      <4> QED
        BY <2>1, <4>1, <4>2, SeqEqual
    <3> QED
      BY <3>1, <3>2
  <2>5. Below(f, dir, recursive) <=>
           IsWithin(Parent(f), dir) /\ (recursive \/ Len(f) = Len(dir) + 1)
    <3>1. Len(f) > Len(dir) <=> Len(dir) < Len(f)
      BY <1>0
    <3> QED
      BY <2>2, <2>3, <3>1 DEF Below
  <2> QED
    BY <1>2, <2>4, <2>5 DEF Kept
<1> QED
  BY <1>1, <1>2

\* A directory is not below itself.
LEMMA NotBelowItself ==
    ASSUME NEW dir \in Seq(STRING), NEW recursive PROVE ~Below(dir, dir, recursive)
<1>1. Len(dir) \in Nat
  OBVIOUS
<1> QED
  BY <1>1 DEF Below

\* Whatever filter_files is given, what is left lies in the directory, or is
\* the directory; nothing is lost of a list of the whole job or of all files
\* of the directory.
LEMMA FilterIsListing ==
    ASSUME NEW fs \in SUBSET Seq(STRING), NEW r, r.at \in Seq(STRING),
           r.recursive \in BOOLEAN, r.at = WeakCanonical(r.absolute, r.path),
           NEW given \in SUBSET fs
    PROVE  /\ FilterFiles(given, r.absolute, r.path, r.recursive) \ {r.at}
                \subseteq Listing(fs, r)
           /\ Listing(fs, r) \subseteq given =>
                FilterFiles(given, r.absolute, r.path, r.recursive) \ {r.at}
                   = Listing(fs, r)
<1>1. \A f \in fs : f \in Listing(fs, r) <=> Below(f, r.at, r.recursive)
  BY DEF Listing, Below
<1>2. \A f : f \in FilterFiles(given, r.absolute, r.path, r.recursive) <=>
         f \in given /\ (f = r.at \/ Kept(f, r.at, r.recursive))
  BY DEF FilterFiles, Kept
<1>3. \A f \in fs : Kept(f, r.at, r.recursive) <=> Below(f, r.at, r.recursive)
  BY KeptIsBelow
<1>4. ~Below(r.at, r.at, r.recursive)
  BY NotBelowItself
<1>5. Listing(fs, r) \subseteq fs
  BY DEF Listing
<1> QED
  BY <1>1, <1>2, <1>3, <1>4, <1>5

\* The full listing has every file that any other one has.
LEMMA RootHasAll ==
    ASSUME NEW fs \in SUBSET Seq(STRING), NEW r, r.at \in Seq(STRING)
    PROVE  Listing(fs, r) \subseteq Listing(fs, Root)
<1>1. Root.at = <<>> /\ Root.recursive
  BY DEF Root
<1>2. SUFFICES ASSUME NEW f \in Listing(fs, r) PROVE f \in Listing(fs, Root)
  OBVIOUS
<1>3. f \in fs /\ f \in Seq(STRING) /\ Len(f) > Len(r.at)
  BY <1>2 DEF Listing
<1>4. Len(f) \in Nat /\ Len(r.at) \in Nat /\ <<>> \in Seq(STRING) /\ Len(<<>>) = 0
  BY <1>3
<1>5. SubSeq(f, 1, 0) = <<>>
  BY SubSeqEmpty
<1> QED
  BY <1>1, <1>3, <1>4, <1>5 DEF Listing

\* A request for the root by the empty path is as good as that of a filler.
LEMMA RootListing ==
    ASSUME NEW fs, NEW r, r.at = <<>>, r.recursive
    PROVE  Listing(fs, r) = Listing(fs, Root)
  BY DEF Listing, Root

-----------------------------------------------------------------------------
(* Types                                                                   *)

USE DEF jobVars, taskVars, stateVars, wireVars, cutVars,
    DropAnswer, HandleListError, HandleListResponse, Receive, SetListing

\* A successful result has its type.
LEMMA SuccessType == \A s \in SUBSET AllFiles : Success(s) \in [ok : BOOLEAN, files : SUBSET AllFiles]
  BY DEF Success

\* A failure has its type.
LEMMA FailureType == Failure \in [ok : BOOLEAN, files : SUBSET AllFiles]
  BY DEF Failure

\* Filtering yields files of the job.
LEMMA FilteredType ==
    ASSUME NEW t, NEW fs \in SUBSET AllFiles PROVE Filtered(t, fs) \in SUBSET AllFiles
  BY DEF Filtered, FilterFiles

\* A task goes from one step to another.
LEMMA TaskType ==
    ASSUME task \in [Tasks -> TaskSteps], NEW t \in Tasks, NEW s \in TaskSteps, Goto(t, s)
    PROVE  /\ task' \in [Tasks -> TaskSteps] /\ task'[t] = s
           /\ \A u \in Tasks \ {t} : task'[u] = task[u]
  BY DEF Goto

\* What the steps of a task do to where the tasks are
LEMMA ProgressTask ==
    ASSUME ListTypeOK, NEW t \in Tasks, Progress(t) \/ DropList(t)
    PROVE  /\ task' \in [Tasks -> TaskSteps]
           /\ \A u \in Tasks \ {t} : \/ task'[u] = task[u]
                                     \/ /\ u \in Fillers /\ task[u] = "idle" /\ task'[u] = "online"
                                        /\ finished[t]
           /\ task[t] # "idle" /\ task'[t] # "idle"
<1>0. task \in [Tasks -> TaskSteps]
  BY DEF ListTypeOK
<1>1. CASE FinishList(t)
  <2>1. CASE Goto(t, "answered")
    BY <1>0, <1>1, <2>1 DEF FinishList, Goto, TaskSteps
  <2>2. CASE \E f \in {f \in Fillers : task[f] = "idle"} :
               task' = [task EXCEPT ![t] = "answered", ![f] = "online"]
    <3>1. PICK f \in Fillers : /\ task[f] = "idle"
                              /\ task' = [task EXCEPT ![t] = "answered", ![f] = "online"]
      BY <2>2
    <3>2. f \in Tasks /\ f # t /\ task[t] = "finish"
      BY <1>1, <3>1 DEF FinishList, Tasks
    <3>3. CASE finished[t]
      BY <1>0, <3>1, <3>2, <3>3 DEF TaskSteps
    <3>4. CASE ~finished[t]
      BY <1>1, <1>0, <3>4, <2>1 DEF FinishList
    <3> QED
      BY <3>3, <3>4
  <2> QED
    BY <1>1, <2>1, <2>2 DEF FinishList
<1>2. CASE ~FinishList(t)
  <2>1. PICK s \in TaskSteps \ {"idle"} : Goto(t, s)
    <3>1. CASE RemoveEntry(t)
      BY <3>1 DEF RemoveEntry, AfterRemove, AfterUserList, AfterBackgroundList, TaskSteps
    <3>2. CASE ~RemoveEntry(t)
      BY <1>2, <3>2 DEF Progress, LookupCache, TestOnline, Register, WaitForList, ListTimeout,
         TakeList, StoreList, DropList, TaskSteps
    <3> QED
      BY <3>1, <3>2
  <2>2. task[t] # "idle"
    BY <1>2 DEF Progress, LookupCache, TestOnline, Register, WaitForList, ListTimeout,
       TakeList, RemoveEntry, StoreList, DropList
  <2> QED
    BY <1>0, <2>1, <2>2, TaskType
<1> QED
  BY <1>1, <1>2

\* The steps of a task keep the types.
LEMMA ProgressType ==
    ASSUME ListTypeOK, NEW t \in Tasks, Progress(t) \/ DropList(t)
    PROVE  ListTypeOK'
<1>0. task' \in [Tasks -> TaskSteps]
  BY ProgressTask
<1>1. CASE LookupCache(t)
  <2>1. Success(Filtered(t, cache)) \in [ok : BOOLEAN, files : SUBSET AllFiles]
    BY FilteredType, SuccessType DEF ListTypeOK
  <2> QED
    BY <1>0, <1>1, <2>1 DEF LookupCache, ListTypeOK
<1>2. CASE TestOnline(t)
  BY <1>0, <1>2 DEF TestOnline, ListTypeOK
<1>3. CASE Register(t)
  BY <1>0, <1>3 DEF Register, ListTypeOK
<1>4. CASE WaitForList(t)
  <2>1. wake' \in [Tasks -> BOOLEAN]
    BY <1>4 DEF WaitForList, ListTypeOK
  <2> QED
    BY <1>0, <1>4, <2>1 DEF WaitForList, ListTypeOK
<1>5. CASE ListTimeout(t)
  <2>1. listing' \in [Tasks -> [ready : BOOLEAN, error : BOOLEAN, files : SUBSET AllFiles]]
    BY <1>5 DEF ListTimeout, ListTypeOK
  <2> QED
    BY <1>0, <1>5, <2>1 DEF ListTimeout, ListTypeOK
<1>6. CASE TakeList(t)
  <2>1. listing[t].files \in SUBSET AllFiles
    BY DEF ListTypeOK
  <2>2. result' \in [Tasks -> [ok : BOOLEAN, files : SUBSET AllFiles]]
    BY <1>6, <2>1, SuccessType, FailureType DEF TakeList, ListTypeOK
  <2> QED
    BY <1>0, <1>6, <2>2 DEF TakeList, ListTypeOK
<1>7. CASE RemoveEntry(t)
  <2>1. listing' \in [Tasks -> [ready : BOOLEAN, error : BOOLEAN, files : SUBSET AllFiles]]
    BY <1>7 DEF RemoveEntry, ListTypeOK, EmptyState
  <2> QED
    BY <1>0, <1>7, <2>1 DEF RemoveEntry, ListTypeOK
<1>8. CASE StoreList(t)
  <2>1. cache' \subseteq AllFiles
    <3>1. result[t].files \in SUBSET AllFiles /\ cache \subseteq AllFiles
      BY DEF ListTypeOK
    <3>2. cache' = result[t].files \/ cache' = cache
      BY <1>8 DEF StoreList
    <3> QED
      BY <3>1, <3>2
  <2>2. cacheCut' \in BOOLEAN
    <3>1. cacheCut' = cacheCut \/ cacheCut' = (t \in cut)
      BY <1>8, Zenon DEF StoreList
    <3>2. cacheCut \in BOOLEAN
      BY DEF ListTypeOK
    <3>3. CASE t \in cut
      BY <3>1, <3>2, <3>3
    <3>4. CASE t \notin cut
      <4>1. (t \in cut) = FALSE
        BY <3>4, SMT
      <4>2. cacheCut' = cacheCut \/ cacheCut' = FALSE
        BY <3>1, <4>1, Zenon
      <4> QED
        BY <3>2, <4>2
    <3> QED
      BY <3>3, <3>4
  <2> QED
    BY <1>0, <1>8, <2>1, <2>2 DEF StoreList, ListTypeOK
<1>9. CASE FinishList(t)
  <2>1. Success(Filtered(t, result[t].files)) \in [ok : BOOLEAN, files : SUBSET AllFiles]
    BY FilteredType, SuccessType DEF ListTypeOK
  <2> QED
    BY <1>0, <1>9, <2>1 DEF FinishList, ListTypeOK
<1>10. CASE DropList(t)
  BY <1>0, <1>10 DEF DropList, ListTypeOK
<1> QED
  BY <1>1, <1>2, <1>3, <1>4, <1>5, <1>6, <1>7, <1>8, <1>9, <1>10 DEF Progress

\* Requests, answers and the end of the job keep the types.
LEMMA OtherType ==
    ASSUME ListTypeOK,
           \/ \E t \in Users, r \in Requests : ListFiles(t, r)
           \/ \E t \in Tasks : RemoteAnswers(t)
           \/ \E a \in answers : HandleAnswer(a)
           \/ JobEnds \/ HandleCompletion
    PROVE  ListTypeOK'
<1>1. ASSUME NEW t \in Users, NEW r \in Requests, ListFiles(t, r) PROVE ListTypeOK'
  <2>1. task' \in [Tasks -> TaskSteps] /\ t \in Tasks
    BY <1>1 DEF ListFiles, Goto, ListTypeOK, TaskSteps, Tasks
  <2> QED
    BY <1>1, <2>1 DEF ListFiles, ListTypeOK
<1>2. ASSUME NEW t \in Tasks, RemoteAnswers(t) PROVE ListTypeOK'
  <2>1. Listing(files, want[t]) \in SUBSET AllFiles
    BY DEF Listing, ListTypeOK, AllFiles
  <2>2. answers' \subseteq [to : Tasks, ok : BOOLEAN, files : SUBSET AllFiles]
    <3> DEFINE good == [to |-> t, ok |-> TRUE, files |-> Listing(files, want[t])]
               bad  == [to |-> t, ok |-> FALSE, files |-> {}]
               A    == [to : Tasks, ok : BOOLEAN, files : SUBSET AllFiles]
    <3>1. good \in A /\ bad \in A
      BY <2>1
    <3>2. answers' \subseteq answers \cup {good, bad}
      BY <1>2 DEF RemoteAnswers
    <3>3. answers \subseteq A
      BY DEF ListTypeOK
    <3> HIDE DEF good, bad, A
    <3>4. answers' \subseteq A
      BY <3>1, <3>2, <3>3
    <3> QED
      BY <3>4 DEF A
  <2> QED
    BY <1>2, <2>2 DEF RemoteAnswers, ListTypeOK
<1>3. ASSUME NEW a \in answers, HandleAnswer(a) PROVE ListTypeOK'
  <2>1. a \in [to : Tasks, ok : BOOLEAN, files : SUBSET AllFiles]
    BY DEF ListTypeOK
  <2>2. a.to \in Tasks /\ listing[a.to] \in [ready : BOOLEAN, error : BOOLEAN, files : SUBSET AllFiles]
    BY <2>1 DEF ListTypeOK
  <2>3. CASE DropAnswer(a)
    BY <2>3 DEF ListTypeOK
  <2>4. CASE HandleListError(a)
    <3>1. [ready |-> TRUE, error |-> TRUE, files |-> listing[a.to].files]
            \in [ready : BOOLEAN, error : BOOLEAN, files : SUBSET AllFiles]
      BY <2>2
    <3> QED
      BY <2>2, <2>4, <3>1 DEF ListTypeOK
  <2>5. ASSUME NEW read \in SUBSET a.files, HandleListResponse(a, read) PROVE ListTypeOK'
    <3>1. [ready |-> TRUE, error |-> listing[a.to].error, files |-> read]
            \in [ready : BOOLEAN, error : BOOLEAN, files : SUBSET AllFiles]
      BY <2>1, <2>2
    <3>2. cut' \subseteq Tasks
      BY <2>2, <2>5 DEF ListTypeOK
    <3> QED
      BY <2>2, <2>5, <3>1, <3>2 DEF ListTypeOK
  <2> QED
    BY <1>3, <2>3, <2>4, <2>5 DEF HandleAnswer
<1>4. CASE JobEnds
  BY <1>4 DEF JobEnds, ListTypeOK
<1>5. CASE HandleCompletion
  <2>1. /\ task' \in [Tasks -> TaskSteps] /\ listMap' \subseteq Tasks /\ asks' \subseteq Tasks
        /\ kind' \in [Tasks -> {"user", "background", "completion"}]
    BY <1>5 DEF HandleCompletion, Goto, ListTypeOK, TaskSteps, Tasks
  <2> QED
    BY <1>5, <2>1 DEF HandleCompletion, ListTypeOK
<1> QED
  BY <1>1, <1>2, <1>3, <1>4, <1>5

-----------------------------------------------------------------------------
(* The job and the tasks that have not begun                               *)

\* The steps of a task leave the job and its own request alone.
LEMMA ProgressFrame ==
    ASSUME NEW t \in Tasks, Progress(t) \/ DropList(t)
    PROVE  /\ files' = files /\ reports' = reports /\ row' = row
           /\ kind' = kind /\ want' = want /\ finished' = finished /\ begun' = begun
           /\ answers' = answers /\ asks' \subseteq asks \cup {t}
<1>1. /\ files' = files /\ reports' = reports /\ row' = row
      /\ kind' = kind /\ want' = want /\ finished' = finished /\ begun' = begun
  BY DEF Progress, LookupCache, TestOnline, Register, WaitForList, ListTimeout, TakeList,
     RemoveEntry, StoreList, FinishList, DropList
<1>2. answers' = answers /\ asks' \subseteq asks \cup {t}
  BY DEF Progress, LookupCache, TestOnline, Register, WaitForList, ListTimeout, TakeList,
     RemoveEntry, StoreList, FinishList, DropList
<1> QED
  BY <1>1, <1>2

\* Every step keeps what is known of the end of the job and of its row.
LEMMA JobStep ==
    ASSUME ListTypeOK, JobInv, ListNext
    PROVE  JobInv'
<1>1. ASSUME NEW t \in Users, NEW r \in Requests, ListFiles(t, r) PROVE JobInv'
  <2>1. t \in Tasks /\ t \notin Fillers
    BY TasksAssumption DEF Tasks
  <2>2. /\ files' = files /\ reports' = reports /\ row' = row /\ kind' = kind
        /\ finished'[t] = row /\ begun'[t] = files
        /\ \A u \in Tasks \ {t} : /\ finished'[u] = finished[u] /\ begun'[u] = begun[u]
                                  /\ want'[u] = want[u] /\ task'[u] = task[u]
    BY <1>1, <2>1 DEF ListFiles, Goto, ListTypeOK
  <2>3. \A f \in Fillers : f \in Tasks \ {t}
    BY <2>1 DEF Tasks
  <2> QED
    BY <2>1, <2>2, <2>3 DEF JobInv
<1>2. ASSUME NEW t \in Tasks, Progress(t) \/ DropList(t) PROVE JobInv'
  <2>1. /\ files' = files /\ reports' = reports /\ row' = row
        /\ kind' = kind /\ want' = want /\ finished' = finished /\ begun' = begun
    BY <1>2, ProgressFrame
  <2>2. \A u \in Fillers : task'[u] # "idle" => task[u] # "idle" \/ finished[t]
    BY <1>2, ProgressTask DEF Tasks
  <2> QED
    BY <2>1, <2>2 DEF JobInv
<1>3. ASSUME NEW t \in Tasks, RemoteAnswers(t) PROVE JobInv'
  BY <1>3 DEF RemoteAnswers, JobInv
<1>4. ASSUME NEW a \in answers, HandleAnswer(a) PROVE JobInv'
  <2>1. /\ files' = files /\ reports' = reports /\ row' = row /\ kind' = kind /\ task' = task
        /\ want' = want /\ finished' = finished /\ begun' = begun
    BY <1>4 DEF HandleAnswer
  <2> QED
    BY <2>1 DEF JobInv
<1>5. CASE JobEnds
  <2>1. /\ files' = FinalFiles /\ row' = row /\ kind' = kind /\ want' = want
        /\ finished' = finished /\ begun' = begun /\ task' = task
    BY <1>5 DEF JobEnds
  <2>2. \A t \in Tasks : begun'[t] \in {EarlyFiles, files'}
    BY <2>1 DEF ListTypeOK
  <2> QED
    BY <2>1, <2>2 DEF JobInv
<1>6. CASE HandleCompletion
  <2>1. /\ files' = files /\ want' = want /\ finished' = finished /\ begun' = begun
        /\ files = FinalFiles
    BY <1>6 DEF HandleCompletion, JobInv
  <2>2. /\ \A u \in Users : kind'[u] = kind[u]
        /\ \A f \in Fillers : kind'[f] # "user"
    BY <1>6, TasksAssumption DEF HandleCompletion, ListTypeOK, Tasks, JobInv
  <2> QED
    BY <2>1, <2>2 DEF JobInv
<1> QED
  BY <1>1, <1>2, <1>3, <1>4, <1>5, <1>6 DEF ListNext

\* Every step keeps what is known of tasks that have not begun.
LEMMA FreshStep ==
    ASSUME ListTypeOK, JobInv, FreshInv, ListNext
    PROVE  FreshInv'
<1>1. ASSUME NEW t \in Users, NEW r \in Requests, ListFiles(t, r) PROVE FreshInv'
  <2>1. /\ asks' = asks /\ answers' = answers /\ listing' = listing
        /\ \A u \in Tasks : task'[u] = "idle" => task[u] = "idle"
    BY <1>1 DEF ListFiles, Goto, ListTypeOK
  <2> QED
    BY <2>1 DEF FreshInv
<1>2. ASSUME NEW t \in Tasks, Progress(t) \/ DropList(t) PROVE FreshInv'
  <2>1. answers' = answers /\ asks' \subseteq asks \cup {t}
    BY <1>2, ProgressFrame
  <2>2. /\ \A u \in Tasks : task'[u] = "idle" => task[u] = "idle" /\ u # t
    BY <1>2, ProgressTask
  <2>3. \A u \in Tasks \ {t} : listing'[u] = listing[u]
    BY <1>2 DEF Progress, LookupCache, TestOnline, Register, WaitForList, ListTimeout,
       TakeList, RemoveEntry, StoreList, FinishList, DropList, ListTypeOK
  <2> QED
    BY <2>1, <2>2, <2>3 DEF FreshInv
<1>3. ASSUME NEW t \in Tasks, RemoteAnswers(t) PROVE FreshInv'
  <2>1. task' = task /\ listing' = listing /\ asks' \subseteq asks /\ t \in asks
    BY <1>3 DEF RemoteAnswers
  <2>2. \A a \in answers' : a \in answers \/ a.to = t
    BY <1>3 DEF RemoteAnswers
  <2> QED
    BY <2>1, <2>2 DEF FreshInv
<1>4. ASSUME NEW a \in answers, HandleAnswer(a) PROVE FreshInv'
  <2>1. task' = task /\ asks' = asks /\ answers' \subseteq answers
    BY <1>4 DEF HandleAnswer
  <2>2. a.to \in Tasks /\ \A u \in Tasks \ {a.to} : listing'[u] = listing[u]
    BY <1>4 DEF HandleAnswer, ListTypeOK
  <2> QED
    BY <2>1, <2>2 DEF FreshInv
<1>5. CASE JobEnds
  BY <1>5 DEF JobEnds, FreshInv
<1>6. CASE HandleCompletion
  <2>1. answers' = answers /\ listing' = listing
    BY <1>6 DEF HandleCompletion
  <2>2. \A u \in Tasks : task'[u] = "idle" => task[u] = "idle" /\ (u \in asks' => u \in asks)
    BY <1>6 DEF HandleCompletion, Goto, ListTypeOK, Tasks
  <2> QED
    BY <2>1, <2>2 DEF FreshInv
<1> QED
  BY <1>1, <1>2, <1>3, <1>4, <1>5, <1>6 DEF ListNext

\* A list that showed the job at a time after the request still does: the job
\* ends at most once.
LEMMA SeenKept ==
    ASSUME ListTypeOK, JobInv, ListNext, NEW t \in Tasks, NEW fs \in Seen(t),
           begun'[t] = begun[t]
    PROVE  fs \in Seen(t)'
<1>1. CASE t \in Fillers
  BY <1>1 DEF Seen
<1>2. CASE t \notin Fillers
  <2>1. files' = files \/ JobEnds
    BY DEF ListNext, ListFiles, Progress, LookupCache, TestOnline, Register, WaitForList,
       ListTimeout, TakeList, RemoveEntry, StoreList, FinishList, DropList, RemoteAnswers,
       HandleAnswer, HandleCompletion
  <2>2. CASE files' = files
    BY <1>2, <2>2 DEF Seen
  <2>3. CASE JobEnds
    <3>1. fs \in {begun[t], files} /\ files' = FinalFiles
      BY <1>2, <2>3 DEF Seen, JobEnds
    <3>2. fs \in {begun'[t], files'}
      <4>1. /\ files \in {EarlyFiles, FinalFiles} /\ begun[t] \in {EarlyFiles, files}
        BY DEF ListTypeOK, JobInv
      <4>2. begun[t] \in {EarlyFiles, FinalFiles}
        BY DEF ListTypeOK
      <4> QED
        BY <3>1, <4>1, <4>2
    <3> QED
      BY <1>2, <3>2 DEF Seen
  <2> QED
    BY <2>1, <2>2, <2>3
<1> QED
  BY <1>1, <1>2

\* A list once cut is remembered as cut.
LEMMA CutGrows == ListNext => cut \subseteq cut'
  BY DEF ListNext, ListFiles, Progress, LookupCache, TestOnline, Register, WaitForList,
     ListTimeout, TakeList, RemoveEntry, StoreList, FinishList, DropList, RemoteAnswers,
     HandleAnswer, HandleCompletion, JobEnds

\* A whole list stays whole.
LEMMA WholeKept ==
    ASSUME ListTypeOK, JobInv, ListNext, NEW t \in Tasks, NEW s, Whole(t, s),
           want'[t] = want[t], begun'[t] = begun[t]
    PROVE  Whole(t, s)'
<1>1. PICK fs \in Seen(t) : s = Listing(fs, want[t])
  BY DEF Whole
<1>2. fs \in Seen(t)'
  BY SeenKept
<1> QED
  BY <1>1, <1>2 DEF Whole

\* A right list stays right.
LEMMA RightKept ==
    ASSUME ListTypeOK, JobInv, ListNext, NEW t \in Tasks, NEW s, Right(t, s),
           want'[t] = want[t], begun'[t] = begun[t]
    PROVE  Right(t, s)'
<1>1. PICK fs \in Seen(t) : /\ s \subseteq Listing(fs, want[t])
                            /\ t \notin cut => s = Listing(fs, want[t])
  BY DEF Right
<1>2. fs \in Seen(t)'
  BY SeenKept
<1>3. t \notin cut' => t \notin cut
  BY CutGrows
<1> QED
  BY <1>1, <1>2, <1>3 DEF Right

-----------------------------------------------------------------------------
(* Lists under way                                                         *)

\* A request changes what a task asks for before anything is under way for it.
LEMMA RequestKept ==
    ASSUME ListTypeOK, FreshInv, ListNext, NEW t \in Tasks
    PROVE  \/ want'[t] = want[t] /\ begun'[t] = begun[t]
           \/ /\ task[t] = "idle" /\ task'[t] = "lookup" /\ answers' = answers
              /\ listing' = listing
<1>1. ASSUME NEW u \in Users, NEW r \in Requests, ListFiles(u, r)
      PROVE  \/ want'[t] = want[t] /\ begun'[t] = begun[t]
             \/ /\ task[t] = "idle" /\ task'[t] = "lookup" /\ answers' = answers
                /\ listing' = listing
  BY <1>1 DEF ListFiles, Goto, ListTypeOK
<1>2. CASE ~\E u \in Users, r \in Requests : ListFiles(u, r)
  <2>1. want' = want /\ begun' = begun
    BY <1>2 DEF ListNext, Progress, LookupCache, TestOnline, Register, WaitForList,
       ListTimeout, TakeList, RemoveEntry, StoreList, FinishList, DropList, RemoteAnswers,
       HandleAnswer, HandleCompletion, JobEnds
  <2> QED
    BY <2>1
<1> QED
  BY <1>1, <1>2

\* Every step keeps the answers under way right.
LEMMA AnswersWholeStep ==
    ASSUME ListTypeOK, JobInv, FreshInv, AnswersWhole, ListNext
    PROVE  AnswersWhole'
<1>1. ASSUME NEW a, a \in answers, a \in answers', a.ok PROVE Whole(a.to, a.files)'
  <2>1. a.to \in Tasks /\ task[a.to] # "idle"
    BY <1>1 DEF ListTypeOK, FreshInv
  <2>2. want'[a.to] = want[a.to] /\ begun'[a.to] = begun[a.to]
    BY <2>1, RequestKept
  <2>3. Whole(a.to, a.files)
    BY <1>1 DEF AnswersWhole
  <2> QED
    BY <2>1, <2>2, <2>3, WholeKept
<1>2. ASSUME NEW a, a \notin answers, a \in answers', a.ok PROVE Whole(a.to, a.files)'
  <2>1. PICK t \in Tasks : RemoteAnswers(t)
    BY <1>2 DEF ListNext, ListFiles, Progress, LookupCache, TestOnline, Register, WaitForList,
       ListTimeout, TakeList, RemoveEntry, StoreList, FinishList, DropList, HandleAnswer,
       HandleCompletion, JobEnds
  <2>2. a.to = t /\ a.files = Listing(files, want[t])
    BY <1>2, <2>1 DEF RemoteAnswers
  <2>3. files' = files /\ want' = want /\ begun' = begun /\ t \in asks
    BY <2>1 DEF RemoteAnswers
  <2>4. t \in Fillers => files = FinalFiles
    BY <2>3 DEF FreshInv, JobInv
  <2> QED
    BY <2>2, <2>3, <2>4 DEF Whole, Seen
<1> QED
  BY <1>1, <1>2 DEF AnswersWhole

\* A list in the state of a task that was there before stays right.
LEMMA ListingKept ==
    ASSUME ListTypeOK, JobInv, FreshInv, ListingsRight, ListNext, NEW t \in Tasks,
           listing[t].ready, ~listing[t].error, listing'[t].files = listing[t].files
    PROVE  Right(t, listing[t].files)'
<1>1. PICK s : s = listing[t].files
  OBVIOUS
<1>2. task[t] # "idle" /\ Right(t, s)
  BY <1>1 DEF FreshInv, ListingsRight
<1>3. want'[t] = want[t] /\ begun'[t] = begun[t]
  BY <1>2, RequestKept
<1>4. Right(t, s)'
  BY <1>2, <1>3, RightKept
<1> QED
  BY <1>1, <1>4

\* Every step keeps the lists of the sessions right.
LEMMA ListingsRightStep ==
    ASSUME ListTypeOK, JobInv, FreshInv, AnswersWhole, ListingsRight, ListNext
    PROVE  ListingsRight'
<1>1. SUFFICES ASSUME NEW t \in Tasks, listing'[t].ready, ~listing'[t].error
               PROVE  Right(t, listing[t].files)'
  BY DEF ListingsRight
<1>2. CASE listing'[t] = listing[t]
  BY <1>1, <1>2, ListingKept
<1>3. CASE listing'[t] # listing[t]
  <2>1. ASSUME NEW u \in Tasks, ListTimeout(u) PROVE FALSE
    <3>1. u = t /\ listing'[t].error
      BY <1>3, <2>1 DEF ListTimeout, ListTypeOK
    <3> QED
      BY <1>1, <3>1
  <2>2. ASSUME NEW u \in Tasks, RemoveEntry(u) PROVE FALSE
    <3>1. u = t /\ ~listing'[t].ready
      BY <1>3, <2>2 DEF RemoveEntry, EmptyState, ListTypeOK
    <3> QED
      BY <1>1, <3>1
  <2>3. PICK a \in answers : HandleAnswer(a)
    BY <1>3, <2>1, <2>2 DEF ListNext, ListFiles, Progress, LookupCache, TestOnline, Register,
       WaitForList, TakeList, StoreList, FinishList, DropList, RemoteAnswers, HandleCompletion,
       JobEnds
  <2>4. CASE HandleListError(a)
    BY <1>1, <1>3, <2>4 DEF ListTypeOK
  <2>5. ASSUME NEW read \in SUBSET a.files, HandleListResponse(a, read)
        PROVE  Right(t, listing[t].files)'
    <3>1. a.to = t /\ a.ok /\ listing'[t].files = read
      BY <1>3, <2>5 DEF ListTypeOK
    <3>2. t \notin cut' => read = a.files
      BY <2>5, <3>1
    <3>3. files' = files /\ want' = want /\ begun' = begun
      BY <2>5
    <3>4. PICK fs \in Seen(t) : a.files = Listing(fs, want[t])
      BY <3>1 DEF AnswersWhole, Whole
    <3> QED
      BY <3>1, <3>2, <3>3, <3>4 DEF Right, Seen
  <2> QED
    BY <1>3, <2>3, <2>4, <2>5 DEF HandleAnswer
<1> QED
  BY <1>2, <1>3

\* A task takes its list after the wait was answered, by a list or an error.
LEMMA TakesWholeStep ==
    ASSUME ListTypeOK, JobInv, TakesWhole, ListNext
    PROVE  TakesWhole'
<1>1. SUFFICES ASSUME NEW t \in Tasks, task'[t] = "take", kind'[t] # "completion"
               PROVE  listing'[t].ready \/ listing'[t].error
  BY DEF TakesWhole
<1>2. CASE task[t] = "take"
  <2>1. kind[t] # "completion"
    BY <1>1, <1>2 DEF ListNext, ListFiles, Progress, LookupCache, TestOnline, Register,
       WaitForList, ListTimeout, TakeList, RemoveEntry, StoreList, FinishList, DropList,
       RemoteAnswers, HandleAnswer, HandleCompletion, JobEnds, ListTypeOK, Tasks
  <2>2. listing[t].ready \/ listing[t].error
    BY <1>2, <2>1 DEF TakesWhole
  <2>3. ASSUME NEW a \in answers, HandleAnswer(a)
        PROVE  listing'[t] = listing[t] \/ listing'[t].ready
    <3>1. CASE DropAnswer(a)
      BY <3>1
    <3>2. CASE HandleListError(a)
      BY <3>2 DEF ListTypeOK
    <3>3. ASSUME NEW read \in SUBSET a.files, HandleListResponse(a, read)
          PROVE  listing'[t] = listing[t] \/ listing'[t].ready
      BY <3>3 DEF ListTypeOK
    <3> QED
      BY <2>3, <3>1, <3>2, <3>3 DEF HandleAnswer
  <2>4. ASSUME NEW u \in Tasks, ListTimeout(u)
        PROVE  listing'[t] = listing[t] \/ listing'[t].error
    BY <2>4 DEF ListTimeout, ListTypeOK
  <2>5. ASSUME NEW u \in Tasks, RemoveEntry(u)
        PROVE  listing'[t] = listing[t]
    BY <1>2, <2>5 DEF RemoveEntry, ListTypeOK
  <2>6. \/ listing' = listing \/ \E a \in answers : HandleAnswer(a)
        \/ \E u \in Tasks : ListTimeout(u) \/ RemoveEntry(u)
    BY DEF ListNext, ListFiles, Progress, LookupCache, TestOnline, Register,
       WaitForList, TakeList, StoreList, FinishList, DropList,
       RemoteAnswers, HandleCompletion, JobEnds
  <2> QED
    BY <2>2, <2>3, <2>4, <2>5, <2>6
<1>3. CASE task[t] # "take"
  <2>1. WaitForList(t) \/ ListTimeout(t)
    <3>1. ASSUME NEW u \in Tasks, Progress(u) \/ DropList(u) PROVE u = t
      BY <1>1, <1>3, <3>1, ProgressTask
    <3>2. PICK u \in Tasks : Progress(u) \/ DropList(u)
      BY <1>1, <1>3 DEF ListNext, ListFiles, Goto, RemoteAnswers, HandleAnswer,
         HandleCompletion, JobEnds, ListTypeOK, Tasks
    <3>3. Progress(t) \/ DropList(t)
      BY <3>1, <3>2
    <3> QED
      BY <1>1, <1>3, <3>3 DEF Progress, LookupCache, TestOnline, Register, TakeList,
         RemoveEntry, AfterRemove, AfterUserList, AfterBackgroundList,
         StoreList, FinishList, DropList, Goto, ListTypeOK, Tasks
  <2>2. CASE WaitForList(t)
    BY <1>1, <1>3, <2>2 DEF WaitForList, Goto, ListTypeOK
  <2>3. CASE ListTimeout(t)
    BY <1>1, <2>3 DEF ListTimeout, ListTypeOK
  <2> QED
    BY <2>1, <2>2, <2>3
<1> QED
  BY <1>2, <1>3

-----------------------------------------------------------------------------
(* Lists that are used                                                     *)

\* How a task comes to use a result
LEMMA Uses ==
    ASSUME ListTypeOK, JobInv, ListNext, NEW t \in Tasks, task'[t] \in Using
    PROVE  \/ task'[t] = task[t] /\ result'[t] = result[t]
           \/ TakeList(t)
           \/ RemoveEntry(t) \/ StoreList(t)
<1>1. ASSUME NEW u \in Tasks, u # t, Progress(u) \/ DropList(u)
      PROVE  task'[t] = task[t] /\ result'[t] = result[t]
  <2>1. task'[t] = task[t]
    BY <1>1, ProgressTask DEF Using
  <2>2. result'[t] = result[t]
    BY <1>1 DEF Progress, LookupCache, TestOnline, Register, WaitForList, ListTimeout,
       TakeList, RemoveEntry, StoreList, FinishList, DropList, ListTypeOK
  <2> QED
    BY <2>1, <2>2
<1>2. CASE Progress(t) \/ DropList(t)
  <2>1. CASE LookupCache(t) \/ TestOnline(t) \/ Register(t) \/ WaitForList(t)
               \/ ListTimeout(t) \/ DropList(t)
    BY <2>1 DEF LookupCache, TestOnline, Register, WaitForList, ListTimeout, DropList, Goto,
       Using, ListTypeOK
  <2>2. CASE FinishList(t)
    <3>1. task[t] = "finish"
      BY <2>2 DEF FinishList
    <3>2. task'[t] = "answered"
      BY <2>2, <3>1 DEF FinishList, Goto, ListTypeOK, Tasks
    <3> QED
      BY <3>2 DEF Using
  <2> QED
    BY <1>2, <2>1, <2>2 DEF Progress
<1>3. CASE ~\E u \in Tasks : Progress(u) \/ DropList(u)
  <2>1. result' = result
    BY <1>3 DEF ListNext, ListFiles, RemoteAnswers, HandleAnswer, HandleCompletion, JobEnds
  <2>2. task'[t] = task[t]
    BY <1>3 DEF ListNext, ListFiles, Goto, RemoteAnswers, HandleAnswer, HandleCompletion,
       JobEnds, Using, ListTypeOK, Tasks
  <2> QED
    BY <2>1, <2>2
<1> QED
  BY <1>1, <1>2, <1>3

\* What a task does with its result before it uses it up
LEMMA TakeEffect ==
    ASSUME ListTypeOK, JobInv, TakesWhole, NEW t \in Tasks, TakeList(t)
    PROVE  /\ files' = files /\ want' = want /\ begun' = begun /\ finished' = finished
           /\ cut' = cut
           /\ result'[t].ok =>
                 /\ listing[t].ready /\ ~listing[t].error
                 /\ result'[t].files = listing[t].files
           /\ \/ task'[t] = "remove"
              \/ task'[t] = "store first" /\ t \in Fillers /\ result'[t].ok
<1>1. files' = files /\ want' = want /\ begun' = begun /\ finished' = finished /\ cut' = cut
  BY DEF TakeList
<1> DEFINE ok == ~listing[t].error /\ (kind[t] = "completion" => listing[t].ready)
<1>2. /\ result' = [result EXCEPT ![t] = IF ok THEN Success(listing[t].files) ELSE Failure]
      /\ task' = [task EXCEPT ![t] = IF kind[t] # "completion" THEN "remove"
                                     ELSE IF ok THEN "store first" ELSE "remove"]
      /\ task[t] = "take"
  BY DEF TakeList, Goto
<1>3. result'[t] = (IF ok THEN Success(listing[t].files) ELSE Failure)
  BY <1>2 DEF ListTypeOK
<1>4. task'[t] = IF kind[t] # "completion" THEN "remove"
                 ELSE IF ok THEN "store first" ELSE "remove"
  BY <1>2 DEF ListTypeOK
<1>5. ok => listing[t].ready /\ ~listing[t].error
  BY <1>2 DEF TakesWhole
<1>6. kind[t] = "completion" => t \in Fillers
  BY DEF JobInv, Tasks
<1> HIDE DEF ok
<1>7. /\ ok => result'[t].ok /\ result'[t].files = listing[t].files
      /\ ~ok => ~result'[t].ok
  BY <1>3 DEF Success, Failure
<1> QED
  BY <1>1, <1>4, <1>5, <1>6, <1>7

\* What follows the removal of the session: only lists of all files of
\* the finished job go on to the cache.
LEMMA RemoveEffect ==
    ASSUME ListTypeOK, NEW t \in Tasks, RemoveEntry(t)
    PROVE  /\ files' = files /\ want' = want /\ begun' = begun /\ finished' = finished
           /\ result' = result /\ task[t] = "remove"
           /\ task'[t] \in Using => task'[t] \in {"store", "finish"} /\ result[t].ok
           /\ task'[t] = "store" =>
                 \/ t \in Fillers
                 \/ finished[t] /\ IsRoot(want[t])
<1>1. /\ files' = files /\ want' = want /\ begun' = begun /\ finished' = finished
      /\ result' = result /\ task[t] = "remove"
  BY DEF RemoveEntry
<1>2. task'[t] = AfterRemove(t)
  BY DEF RemoveEntry, Goto, ListTypeOK
<1>3. t \in Users \/ t \in Fillers
  BY DEF Tasks
<1>4. AfterRemove(t) \in Using => AfterRemove(t) \in {"store", "finish"} /\ result[t].ok
  <2>1. CASE result[t].ok
    BY <2>1 DEF AfterRemove, AfterUserList, AfterBackgroundList, Using
  <2>2. CASE ~result[t].ok
    BY <2>2 DEF AfterRemove, AfterUserList, AfterBackgroundList, Using
  <2> QED
    BY <2>1, <2>2
<1>5. AfterRemove(t) = "store" =>
         \/ t \in Fillers
         \/ finished[t] /\ IsRoot(want[t])
  BY <1>3 DEF AfterRemove, AfterUserList, AfterBackgroundList
<1> QED
  BY <1>1, <1>2, <1>4, <1>5

\* The transaction on the cache replaces it by the result, or fails.
LEMMA StoreEffect ==
    ASSUME ListTypeOK, NEW t \in Tasks, StoreList(t)
    PROVE  /\ files' = files /\ want' = want /\ begun' = begun /\ finished' = finished
           /\ result' = result /\ task[t] \in {"store", "store first"}
           /\ task'[t] \in {"remove", "finish", "ended"}
           /\ \/ cache' = cache /\ cacheCut' = cacheCut
              \/ cache' = result[t].files /\ cacheCut' = (t \in cut)
  BY DEF StoreList, Goto, ListTypeOK

\* Every step keeps the results of the tasks right.
LEMMA ResultsRightStep ==
    ASSUME ListTypeOK, JobInv, FreshInv, ListingsRight, TakesWhole, ResultsRight, ListNext
    PROVE  ResultsRight'
<1>1. SUFFICES ASSUME NEW t \in Tasks, task'[t] \in Using, result'[t].ok
               PROVE  Right(t, result[t].files)'
  BY DEF ResultsRight
<1>2. ASSUME task[t] \in Using, result'[t] = result[t] PROVE Right(t, result[t].files)'
  <2>1. PICK s : s = result[t].files
    OBVIOUS
  <2>2. Right(t, s) /\ task[t] # "idle"
    BY <1>1, <1>2, <2>1 DEF ResultsRight, Using
  <2>3. want'[t] = want[t] /\ begun'[t] = begun[t]
    BY <2>2, RequestKept
  <2>4. Right(t, s)'
    BY <2>2, <2>3, RightKept
  <2> QED
    BY <1>2, <2>1, <2>4
<1>3. CASE TakeList(t)
  <2>1. /\ files' = files /\ want' = want /\ begun' = begun /\ cut' = cut
        /\ listing[t].ready /\ ~listing[t].error /\ result'[t].files = listing[t].files
    BY <1>1, <1>3, TakeEffect
  <2>2. Right(t, listing[t].files)
    BY <2>1 DEF ListingsRight
  <2> QED
    BY <2>1, <2>2 DEF Right, Seen
<1>4. CASE RemoveEntry(t)
  BY <1>2, <1>4, RemoveEffect DEF Using
<1>5. CASE StoreList(t)
  BY <1>2, <1>5, StoreEffect DEF Using
<1> QED
  BY <1>1, <1>2, <1>3, <1>4, <1>5, Uses

\* Only a task that asked for all files of the finished job comes to store.
LEMMA StoresRootStep ==
    ASSUME ListTypeOK, JobInv, FreshInv, TakesWhole, StoresRoot, ListNext
    PROVE  StoresRoot'
<1>1. ASSUME NEW t \in Tasks, task'[t] \in {"store", "store first", "finish"}
      PROVE  /\ result'[t].ok
             /\ task'[t] \in {"store", "store first"} =>
                   \/ t \in Fillers
                   \/ finished'[t] /\ IsRoot(want'[t])
  <2>1. task'[t] \in Using
    BY <1>1 DEF Using
  <2>2. CASE task'[t] = task[t] /\ result'[t] = result[t]
    <3>1. want'[t] = want[t]
      BY <1>1, <2>2, RequestKept
    <3>2. finished'[t] = finished[t]
      BY <1>1, <2>2 DEF ListNext, ListFiles, Goto, Progress, LookupCache, TestOnline, Register,
         WaitForList, ListTimeout, TakeList, RemoveEntry, StoreList, FinishList, DropList,
         RemoteAnswers, HandleAnswer, HandleCompletion, JobEnds, ListTypeOK
    <3> QED
      BY <1>1, <2>2, <3>1, <3>2 DEF StoresRoot
  <2>3. CASE TakeList(t)
    BY <1>1, <2>3, TakeEffect
  <2>4. CASE RemoveEntry(t)
    BY <1>1, <2>1, <2>4, RemoveEffect
  <2>5. CASE StoreList(t)
    BY <1>1, <2>5, StoreEffect DEF StoresRoot
  <2> QED
    BY <2>1, <2>2, <2>3, <2>4, <2>5, Uses
<1> QED
  BY <1>1 DEF StoresRoot

\* What is stored is the full listing of the finished job, or a part of it
\* from a FILE_LIST that was cut.
LEMMA StoredIsFinal ==
    ASSUME ListTypeOK, JobInv, ResultsRight, StoresRoot, NEW t \in Tasks,
           task[t] \in {"store", "store first"}
    PROVE  /\ result[t].files \subseteq Listing(FinalFiles, Root)
           /\ t \notin cut => result[t].files = Listing(FinalFiles, Root)
<1>1. result[t].ok /\ Right(t, result[t].files)
  BY DEF ResultsRight, StoresRoot, Using
<1>2. PICK fs \in Seen(t) : /\ result[t].files \subseteq Listing(fs, want[t])
                            /\ t \notin cut => result[t].files = Listing(fs, want[t])
  BY <1>1 DEF Right
<1>3. CASE t \in Fillers
  BY <1>2, <1>3 DEF Seen, JobInv
<1>4. CASE t \notin Fillers
  <2>1. finished[t] /\ IsRoot(want[t])
    BY <1>4 DEF StoresRoot
  <2>2. fs = FinalFiles
    BY <1>2, <1>4, <2>1 DEF Seen, JobInv
  <2>3. want[t].at = <<>> /\ want[t].recursive
    <3>1. want[t] \in Requests \/ want[t] = Root
      BY DEF ListTypeOK
    <3>2. Root.at = <<>>
      BY DEF Root
    <3>3. want[t] \in Requests => want[t].at = <<>>
      BY <2>1, PathsAssumption DEF IsRoot
    <3> QED
      BY <2>1, <3>1, <3>2, <3>3 DEF IsRoot
  <2>4. Listing(fs, want[t]) = Listing(FinalFiles, Root)
    BY <2>2, <2>3, RootListing
  <2> QED
    BY <1>2, <2>4
<1> QED
  BY <1>3, <1>4

\* A step changes the cache into that listing or such a part, or not at all.
LEMMA CacheStep ==
    ASSUME ListTypeOK, JobInv, ResultsRight, StoresRoot, ListNext
    PROVE  \/ cache' = cache /\ cacheCut' = cacheCut
           \/ /\ cache' \subseteq Listing(FinalFiles, Root)
              /\ ~cacheCut' => cache' = Listing(FinalFiles, Root)
<1>1. ASSUME NEW t \in Tasks, StoreList(t)
      PROVE  \/ cache' = cache /\ cacheCut' = cacheCut
             \/ /\ cache' \subseteq Listing(FinalFiles, Root)
                /\ ~cacheCut' => cache' = Listing(FinalFiles, Root)
  BY <1>1, StoreEffect, StoredIsFinal
<1>2. CASE ~\E t \in Tasks : StoreList(t)
  BY <1>2 DEF ListNext, ListFiles, Progress, LookupCache, TestOnline, Register, WaitForList,
     ListTimeout, TakeList, RemoveEntry, FinishList, DropList, RemoteAnswers, HandleAnswer,
     HandleCompletion, JobEnds
<1> QED
  BY <1>1, <1>2

-----------------------------------------------------------------------------
(* The theorems                                                            *)

\* The invariant holds before any request.
LEMMA ListInvInit == ListInit => ListInv
<1> SUFFICES ASSUME ListInit PROVE ListInv
  OBVIOUS
<1>1. ListTypeOK
  <2>1. listing \in [Tasks -> [ready : BOOLEAN, error : BOOLEAN, files : SUBSET AllFiles]]
    BY DEF ListInit, EmptyState
  <2>2. result \in [Tasks -> [ok : BOOLEAN, files : SUBSET AllFiles]]
    BY FailureType DEF ListInit
  <2>3. task \in [Tasks -> TaskSteps]
    BY DEF ListInit, TaskSteps
  <2>4. want \in [Tasks -> Requests \cup {Root}]
    BY DEF ListInit
  <2> QED
    BY <2>1, <2>2, <2>3, <2>4 DEF ListInit, ListTypeOK
<1>2. JobInv
  BY TasksAssumption DEF ListInit, JobInv, Tasks
<1>3. FreshInv /\ AnswersWhole /\ ListingsRight /\ TakesWhole
  BY DEF ListInit, FreshInv, EmptyState, AnswersWhole, ListingsRight, TakesWhole
<1>4. ResultsRight /\ StoresRoot /\ CacheInv
  BY DEF ListInit, ResultsRight, StoresRoot, CacheInv, Using
<1> QED
  BY <1>1, <1>2, <1>3, <1>4 DEF ListInv

\* Every step keeps the invariant.
LEMMA ListInvStep == ListInv /\ [ListNext]_listVars => ListInv'
<1>1. CASE ListInv /\ ListNext
  <2> USE <1>1 DEF ListInv
  <2>1. ListTypeOK'
    BY ProgressType, OtherType DEF ListNext
  <2>2. JobInv' /\ FreshInv'
    BY JobStep, FreshStep
  <2>3. AnswersWhole' /\ ListingsRight' /\ TakesWhole'
    BY AnswersWholeStep, ListingsRightStep, TakesWholeStep
  <2>4. ResultsRight' /\ StoresRoot'
    BY ResultsRightStep, StoresRootStep
  <2>5. CacheInv'
    BY CacheStep DEF CacheInv
  <2> QED
    BY <2>1, <2>2, <2>3, <2>4, <2>5
<1>2. CASE ListInv /\ UNCHANGED listVars
  <2> USE <1>2 DEF listVars
  <2>1. ListTypeOK' /\ JobInv' /\ FreshInv'
    BY DEF ListInv, ListTypeOK, JobInv, FreshInv
  <2>2. AnswersWhole' /\ ListingsRight' /\ TakesWhole'
    BY DEF ListInv, AnswersWhole, ListingsRight, TakesWhole, Whole, Right, Seen
  <2>3. ResultsRight' /\ StoresRoot' /\ CacheInv'
    BY DEF ListInv, ResultsRight, StoresRoot, CacheInv, Right, Seen
  <2> QED
    BY <2>1, <2>2, <2>3 DEF ListInv
<1> QED
  BY <1>1, <1>2

\* The inductive invariant holds for any number of users and tasks that fill
\* the cache, whatever the files of the job are and whatever is asked for:
\* each list that is under way or taken shows the job as it was at a time
\* after the request, all of it unless its FILE_LIST was cut, and only one
\* that was asked of the finished job by its root is stored.
THEOREM ListInductive == ListSpec => []ListInv
  BY ListInvInit, ListInvStep, PTL DEF ListSpec

\* The cache changes only into the full listing of the finished job, or into
\* the part of it that a FILE_LIST cut among its entries has brought: no
\* timeout, error, late answer, failed transaction or second task that fills
\* it empties it, leaves a part in it or puts another file in it.
THEOREM CacheIsFinalHolds == ListSpec => CacheIsFinal
<1>1. ListInv /\ [ListNext]_listVars =>
         [/\ cache' \subseteq Listing(FinalFiles, Root)
          /\ ~cacheCut' => cache' = Listing(FinalFiles, Root)]_<<cache, cacheCut>>
  BY CacheStep DEF ListInv, listVars
<1> QED
  BY <1>1, ListInductive, PTL DEF ListSpec, CacheIsFinal

-----------------------------------------------------------------------------
(* Answers                                                                 *)

\* `at` is where weak_canonical leads for each request.
PathsLead == \A r \in Requests : r.at = WeakCanonical(r.absolute, r.path)

\* A user that has begun asks for one of the requests.
UserInv == \A t \in Users : task[t] # "idle" => want[t] \in Requests

\* Every step keeps the users asking for requests.
LEMMA UserStep ==
    ASSUME ListTypeOK, JobInv, FreshInv, UserInv, ListNext
    PROVE  UserInv'
<1>1. SUFFICES ASSUME NEW t \in Users, task'[t] # "idle" PROVE want'[t] \in Requests
  BY DEF UserInv
<1>2. t \in Tasks /\ t \notin Fillers
  BY TasksAssumption DEF Tasks
<1>3. ASSUME NEW u \in Users, NEW r \in Requests, ListFiles(u, r) PROVE want'[t] \in Requests
  BY <1>1, <1>2, <1>3 DEF ListFiles, Goto, ListTypeOK, UserInv, Tasks
<1>4. CASE ~\E u \in Users, r \in Requests : ListFiles(u, r)
  <2>1. want' = want
    BY <1>4 DEF ListNext, Progress, LookupCache, TestOnline, Register, WaitForList,
       ListTimeout, TakeList, RemoveEntry, StoreList, FinishList, DropList, RemoteAnswers,
       HandleAnswer, HandleCompletion, JobEnds
  <2>2. ASSUME NEW u \in Tasks, Progress(u) \/ DropList(u) PROVE task[t] # "idle"
    BY <1>1, <1>2, <2>2, ProgressTask
  <2>3. CASE ~\E u \in Tasks : Progress(u) \/ DropList(u)
    <3>1. task'[t] = task[t]
      BY <1>2, <1>4, <2>3 DEF ListNext, RemoteAnswers, HandleAnswer, HandleCompletion,
         JobEnds, Goto, ListTypeOK, Tasks
    <3> QED
      BY <1>1, <2>1, <3>1 DEF UserInv
  <2> QED
    BY <2>1, <2>2, <2>3 DEF UserInv
<1> QED
  BY <1>3, <1>4

\* filter_files cuts a list of the whole job, and leaves one of the directory;
\* of a part it leaves a part.
LEMMA FilteredIsAsked ==
    ASSUME PathsLead, UserInv, NEW t \in Users, task[t] # "idle",
           NEW fs \in {EarlyFiles, FinalFiles}, NEW given \in SUBSET fs
    PROVE  /\ Filtered(t, given) \ {want[t].at} \subseteq Listing(fs, want[t])
           /\ Listing(fs, want[t]) \subseteq given =>
                 Filtered(t, given) \ {want[t].at} = Listing(fs, want[t])
<1>1. want[t] \in Requests
  BY DEF UserInv
<1>2. /\ want[t].at \in Seq(STRING) /\ want[t].recursive \in BOOLEAN
      /\ want[t].at = WeakCanonical(want[t].absolute, want[t].path)
  BY <1>1, PathsAssumption DEF PathsLead
<1>3. fs \in SUBSET Seq(STRING)
  BY FilesAssumption
<1> QED
  BY <1>2, <1>3, FilterIsListing DEF Filtered

\* Every step keeps the answers right.
LEMMA AnswerStep ==
    ASSUME PathsLead, ListInv, UserInv, AnswerIsRight, ListNext
    PROVE  AnswerIsRight'
<1>0. ListTypeOK /\ JobInv /\ FreshInv /\ ResultsRight /\ StoresRoot /\ CacheInv
  BY DEF ListInv
<1>1. SUFFICES ASSUME NEW t \in Users, task'[t] = "answered"
               PROVE  \E fs \in {begun'[t], files'} :
                         /\ result'[t].files \ {want'[t].at} \subseteq Listing(fs, want'[t])
                         /\ t \notin cut' =>
                               result'[t].files \ {want'[t].at} = Listing(fs, want'[t])
  BY DEF AnswerIsRight, Asked
<1>2. t \in Tasks /\ t \notin Fillers
  BY TasksAssumption DEF Tasks
<1>3. CASE LookupCache(t)
  <2>1. /\ task[t] = "lookup" /\ files' = files /\ want' = want /\ begun' = begun
    BY <1>3 DEF LookupCache
  <2>2. finished[t] /\ cache # {}
    BY <1>0, <1>1, <1>2, <1>3 DEF LookupCache, Goto, ListTypeOK
  <2>3. result'[t] = Success(Filtered(t, cache))
    BY <1>0, <1>2, <1>3, <2>2 DEF LookupCache, ListTypeOK
  <2>4. /\ begun[t] = FinalFiles /\ cache \subseteq Listing(FinalFiles, Root)
        /\ ~cacheCut => cache = Listing(FinalFiles, Root)
    BY <1>0, <1>2, <2>2 DEF JobInv, CacheInv
  <2>5. Listing(FinalFiles, want[t]) \subseteq Listing(FinalFiles, Root)
    <3>1. want[t].at \in Seq(STRING)
      BY <2>1, PathsAssumption DEF UserInv
    <3> QED
      BY <3>1, RootHasAll, FilesAssumption
  <2>6. /\ Filtered(t, cache) \ {want[t].at} \subseteq Listing(FinalFiles, want[t])
        /\ ~cacheCut => Filtered(t, cache) \ {want[t].at} = Listing(FinalFiles, want[t])
    <3>1. cache \in SUBSET FinalFiles
      BY <2>4 DEF Listing
    <3> QED
      BY <2>1, <2>4, <2>5, <3>1, FilteredIsAsked
  <2>7. result'[t].files = Filtered(t, cache)
    BY <2>3 DEF Success
  <2>8. t \notin cut' => ~cacheCut
    BY <1>3, <2>2 DEF LookupCache
  <2> QED
    BY <2>1, <2>4, <2>6, <2>7, <2>8
<1>4. CASE FinishList(t)
  <2>1. /\ task[t] = "finish" /\ files' = files /\ want' = want /\ begun' = begun /\ cut' = cut
    BY <1>4 DEF FinishList
  <2>2. result'[t] = Success(Filtered(t, result[t].files))
    BY <1>0, <1>2, <1>4 DEF FinishList, ListTypeOK
  <2>3. result[t].ok /\ Right(t, result[t].files)
    BY <1>0, <1>2, <2>1 DEF ResultsRight, StoresRoot, Using
  <2>4. PICK fs \in {begun[t], files} :
           /\ result[t].files \subseteq Listing(fs, want[t])
           /\ t \notin cut => result[t].files = Listing(fs, want[t])
    BY <1>2, <2>3 DEF Right, Seen
  <2>5. fs \in {EarlyFiles, FinalFiles} /\ result[t].files \in SUBSET fs
    BY <1>0, <1>2, <2>4 DEF ListTypeOK, Listing
  <2>6. /\ Filtered(t, result[t].files) \ {want[t].at} \subseteq Listing(fs, want[t])
        /\ t \notin cut =>
              Filtered(t, result[t].files) \ {want[t].at} = Listing(fs, want[t])
    BY <2>1, <2>4, <2>5, FilteredIsAsked
  <2>7. result'[t].files = Filtered(t, result[t].files)
    BY <2>2 DEF Success
  <2> QED
    BY <2>1, <2>4, <2>6, <2>7
<1>5. CASE task[t] = "answered"
  <2>1. want'[t] = want[t] /\ begun'[t] = begun[t]
    BY <1>0, <1>2, <1>5, RequestKept
  <2>2. result'[t] = result[t]
    BY <1>0, <1>2, <1>5 DEF ListNext, ListFiles, Progress, LookupCache, TestOnline, Register,
       WaitForList, ListTimeout, TakeList, RemoveEntry, StoreList, FinishList, DropList,
       RemoteAnswers, HandleAnswer, HandleCompletion, JobEnds, ListTypeOK
  <2>3. PICK s : s = result[t].files \ {want[t].at}
    OBVIOUS
  <2>4. Right(t, s)
    BY <1>2, <1>5, <2>3 DEF AnswerIsRight, Asked, Right, Seen
  <2>5. Right(t, s)'
    BY <1>0, <1>2, <2>1, <2>4, RightKept
  <2> QED
    BY <1>2, <2>1, <2>2, <2>3, <2>5 DEF Right, Seen
<1>6. CASE task[t] # "answered" /\ ~LookupCache(t) /\ ~FinishList(t)
  <2>1. ASSUME NEW u \in Tasks, u # t, Progress(u) \/ DropList(u) PROVE FALSE
    BY <1>0, <1>1, <1>2, <1>6, <2>1, ProgressTask
  <2>2. CASE Progress(t) \/ DropList(t)
    <3>1. CASE RemoveEntry(t)
      BY <1>0, <1>1, <1>2, <3>1 DEF RemoveEntry, AfterRemove, AfterUserList,
         AfterBackgroundList, Goto, ListTypeOK
    <3>2. CASE ~RemoveEntry(t)
      BY <1>0, <1>1, <1>2, <1>6, <2>2, <3>2 DEF Progress, TestOnline, Register, WaitForList,
         ListTimeout, TakeList, StoreList, DropList, Goto, ListTypeOK
    <3> QED
      BY <3>1, <3>2
  <2>3. CASE ~\E u \in Tasks : Progress(u) \/ DropList(u)
    BY <1>0, <1>1, <1>2, <1>6, <2>3 DEF ListNext, ListFiles, RemoteAnswers, HandleAnswer,
       HandleCompletion, JobEnds, Goto, ListTypeOK, Tasks
  <2> QED
    BY <2>1, <2>2, <2>3
<1> QED
  BY <1>3, <1>4, <1>5, <1>6

\* If weak_canonical leads from the path of each request to the directory that
\* was meant, every user gets files of that directory and no others, as they
\* were between the request and the answer, from the cache or live, and all of
\* them unless they come from a FILE_LIST that was cut, for any files and any
\* number of users.
THEOREM AnswerIsRightHolds == PathsLead => (ListSpec => []AnswerIsRight)
<1> SUFFICES ASSUME PathsLead PROVE ListSpec => []AnswerIsRight
  OBVIOUS
<1>1. ListInit => UserInv /\ AnswerIsRight
  BY DEF ListInit, UserInv, AnswerIsRight, Tasks
<1>2. ListInv /\ UserInv /\ AnswerIsRight /\ [ListNext]_listVars => UserInv' /\ AnswerIsRight'
  <2>1. CASE ListInv /\ UserInv /\ AnswerIsRight /\ ListNext
    BY <2>1, UserStep, AnswerStep DEF ListInv
  <2>2. CASE ListInv /\ UserInv /\ AnswerIsRight /\ UNCHANGED listVars
    BY <2>2 DEF listVars, UserInv, AnswerIsRight, Asked
  <2> QED
    BY <2>1, <2>2
<1> QED
  BY <1>1, <1>2, ListInductive, PTL DEF ListSpec

=============================================================================
