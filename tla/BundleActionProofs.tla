------------------------- MODULE BundleActionProofs -------------------------
(***************************************************************************)
(* The threads that share the environment and the temporary directory do   *)
(* not meet in a file of bundle.action, and get reads true values: proofs  *)
(* for any number of threads, names, lengths and directories.              *)
(***************************************************************************)
EXTENDS BundleAction, SequenceFacts, FiniteSetTheorems

-----------------------------------------------------------------------------
(* What a step of Env does to a thread's place.                            *)
EnvPlaces == Ended \cup {"pointed", "sized", "reading", "fault"}

\* A call of Env leaves the other threads where they are, and its own thread
\* outside bundle.action.
LEMMA EnvStepPlaces ==
  ASSUME NEW t \in Threads, EnvStep(t)
  PROVE  /\ at[t] \in EnvPlaces
         /\ \E to \in EnvPlaces : at' = [at EXCEPT ![t] = to]
<1>1. CASE Raises(t)
  BY <1>1 DEF Raises, Calls, CallsWith, EnvPlaces, Ended
<1>2. CASE \E name \in Names : \E v \in Values : lenv_set(t, name, v)
  BY <1>2 DEF lenv_set, Writes, Calls, CallsWith, EnvPlaces, Ended
<1>3. CASE \E name \in Names : lenv_unset(t, name)
  BY <1>3 DEF lenv_unset, Writes, Calls, CallsWith, EnvPlaces, Ended
<1>4. CASE \E name \in Names : lenv_get(t, name)
  BY <1>4 DEF lenv_get, CallsWith, EnvPlaces, Ended
<1>5. CASE \E show \in BOOLEAN : KeysOfCopy(t, show)
  BY <1>5 DEF KeysOfCopy, CallsWith, EnvPlaces, Ended
<1>6. CASE GetsValue(t)
  BY <1>6 DEF GetsValue, Goes, EnvPlaces, Ended
<1>7. CASE CountsKeys(t)
  BY <1>7 DEF CountsKeys, CallsWith, EnvPlaces, Ended
<1>8. CASE ReadsKey(t)
  BY <1>8 DEF ReadsKey, Goes, EnvPlaces, Ended
<1>9. CASE CopiesValue(t)
  BY <1>9 DEF CopiesValue, Goes, EnvPlaces, Ended
<1> QED
  BY <1>1, <1>2, <1>3, <1>4, <1>5, <1>6, <1>7, <1>8, <1>9 DEF EnvStep

-----------------------------------------------------------------------------
(* bundle.action.                                                          *)
WorkPlaces == {"open", "write", "run", "unlink", "rmdir"}

ActionTypeOK ==
    /\ at \in [Threads -> EnvPlaces \cup WorkPlaces]
    /\ dirOf \in [Threads -> Dirs \cup {NoDir}]
    /\ file \in [Dirs -> {"no directory", "no file", "cut", "whole"}]
    /\ wrote \in [Threads -> Contents]

\* A thread at work has a directory, which is there; no other has the same.
OwnDirs ==
    \A t \in Threads : Working(t) =>
        /\ dirOf[t] \in Dirs
        /\ file[dirOf[t]] # "no directory"
        /\ \A u \in Threads \ {t} : Working(u) => dirOf[u] # dirOf[t]

\* What the file is, as far as the thread has come.
FileKnown ==
    \A t \in Threads :
        /\ at[t] = "run" => file[dirOf[t]] = wrote[t]
        /\ at[t] = "rmdir" => file[dirOf[t]] = "no file" \/ dirOf[t] \in failed

ActionInv == ActionTypeOK /\ OwnDirs /\ FileKnown /\ NothingLeft

LEMMA ActionInitially == Init => ActionInv
<1> SUFFICES ASSUME Init PROVE ActionInv
  OBVIOUS
<1>1. at = [t \in Threads |-> "idle"] /\ ActionInit
  BY DEF Init, EnvInit
<1>2. ActionTypeOK
  BY <1>1 DEF ActionInit, ActionTypeOK, EnvPlaces, Ended, Contents
<1>3. \A t \in Threads : ~Working(t) /\ at[t] = "idle"
  BY <1>1 DEF Working
<1>4. OwnDirs /\ FileKnown /\ NothingLeft
  BY <1>1, <1>3 DEF ActionInit, OwnDirs, FileKnown, NothingLeft
<1> QED
  BY <1>2, <1>4 DEF ActionInv

\* A step in which no thread enters or leaves bundle.action changes nothing.
LEMMA OtherSteps ==
  ASSUME ActionInv, UNCHANGED <<dirOf, file, others, wrote, failed>>,
         NEW t \in Threads, NEW to \in EnvPlaces,
         at[t] \in EnvPlaces, at' = [at EXCEPT ![t] = to]
  PROVE  ActionInv'
<1>1. \A u \in Threads : /\ Working(u)' <=> Working(u)
                         /\ Working(u) => at'[u] = at[u]
  BY DEF ActionInv, ActionTypeOK, Working, EnvPlaces, Ended
<1>2. ActionTypeOK'
  BY DEF ActionInv, ActionTypeOK
<1>3. OwnDirs' /\ NothingLeft'
  BY <1>1 DEF ActionInv, OwnDirs, NothingLeft
<1>4. FileKnown'
  BY <1>1 DEF ActionInv, FileKnown, Working, ActionTypeOK, EnvPlaces, Ended
<1> QED
  BY <1>2, <1>3, <1>4 DEF ActionInv

LEMMA MakesDirStep ==
  ASSUME ActionInv, NEW t \in Threads, MakesDir(t)
  PROVE  ActionInv'
<1>1. PICK d \in Dirs : /\ file[d] = "no directory"
                        /\ dirOf' = [dirOf EXCEPT ![t] = d]
                        /\ file' = [file EXCEPT ![d] = "no file"]
  BY DEF MakesDir, FreshDir
<1>2. /\ at[t] \in Ended
      /\ at' = [at EXCEPT ![t] = "open"]
      /\ UNCHANGED <<others, wrote, failed>>
  BY DEF MakesDir, Calls, CallsWith
<1>3. \A u \in Threads \ {t} : Working(u)' <=> Working(u)
  BY <1>2 DEF ActionInv, ActionTypeOK, Working
<1>4. \A u \in Threads \ {t} : Working(u) => dirOf[u] # d
  BY <1>1 DEF ActionInv, OwnDirs
<1>5. Working(t)' /\ ~Working(t)
  BY <1>2 DEF ActionInv, ActionTypeOK, Working, Ended
<1>6. ActionTypeOK'
  BY <1>1, <1>2 DEF ActionInv, ActionTypeOK, WorkPlaces
<1>7. OwnDirs'
  BY <1>1, <1>3, <1>4, <1>5 DEF ActionInv, OwnDirs, ActionTypeOK
<1>8. FileKnown'
  BY <1>1, <1>2, <1>4 DEF ActionInv, FileKnown, OwnDirs, ActionTypeOK, Working
<1>9. NothingLeft'
  BY <1>1, <1>2, <1>3, <1>5 DEF ActionInv, NothingLeft, ActionTypeOK
<1> QED
  BY <1>6, <1>7, <1>8, <1>9 DEF ActionInv

\* A thread that goes on with its work touches no directory but its own.
LEMMA WorkStep ==
  ASSUME ActionInv, NEW t \in Threads,
         NEW to \in WorkPlaces, NEW content \in {"no file", "cut", "whole"},
         Working(t), at' = [at EXCEPT ![t] = to], UNCHANGED dirOf,
         \/ file' = [file EXCEPT ![dirOf[t]] = content]
         \/ UNCHANGED file,
         wrote' \in [Threads -> Contents],
         \A u \in Threads \ {t} : wrote'[u] = wrote[u],
         others \subseteq others', failed \subseteq failed',
         to = "run" => file'[dirOf[t]] = wrote'[t],
         to = "rmdir" => file'[dirOf[t]] = "no file" \/ dirOf[t] \in failed'
  PROVE  ActionInv'
<1>1. /\ dirOf[t] \in Dirs
      /\ file[dirOf[t]] # "no directory"
      /\ \A u \in Threads \ {t} : Working(u) => dirOf[u] # dirOf[t]
  BY DEF ActionInv, OwnDirs
<1>2. \A u \in Threads : /\ Working(u)' <=> Working(u)
                         /\ u # t => at'[u] = at[u]
  BY DEF ActionInv, ActionTypeOK, Working, WorkPlaces
<1>3. \A d \in Dirs : /\ d # dirOf[t] => file'[d] = file[d]
                      /\ file'[d] = "no directory" <=> file[d] = "no directory"
  BY <1>1 DEF ActionInv, ActionTypeOK
<1>4. ActionTypeOK'
  BY <1>1 DEF ActionInv, ActionTypeOK
<1>5. OwnDirs'
  BY <1>2, <1>3, ZenonT(60) DEF ActionInv, OwnDirs
<1>6. FileKnown'
  <2> SUFFICES ASSUME NEW u \in Threads
               PROVE  /\ at'[u] = "run" => file'[dirOf[u]] = wrote'[u]
                      /\ at'[u] = "rmdir" =>
                           file'[dirOf[u]] = "no file" \/ dirOf[u] \in failed'
    BY DEF FileKnown
  <2>1. CASE u = t
    BY <2>1 DEF ActionInv, ActionTypeOK
  <2>2. CASE u # t
    <3>1. at'[u] \in {"run", "rmdir"} => dirOf[u] \in Dirs /\ dirOf[u] # dirOf[t]
      BY <1>1, <1>2, <2>2 DEF ActionInv, OwnDirs, Working
    <3> QED
      BY <1>2, <1>3, <2>2, <3>1, ZenonT(60) DEF ActionInv, FileKnown
  <2> QED
    BY <2>1, <2>2
<1>7. NothingLeft'
  BY <1>2, <1>3 DEF ActionInv, NothingLeft
<1> QED
  BY <1>4, <1>5, <1>6, <1>7 DEF ActionInv

\* A thread that ends its work removes its directory, or leaves a reason.
LEMMA LeaveStep ==
  ASSUME ActionInv, NEW t \in Threads, NEW to \in Ended,
         Working(t), at' = [at EXCEPT ![t] = to],
         dirOf' = [dirOf EXCEPT ![t] = NoDir],
         wrote' = [wrote EXCEPT ![t] = "cut"],
         UNCHANGED others, failed \subseteq failed',
         \/ file' = [file EXCEPT ![dirOf[t]] = "no directory"]
         \/ UNCHANGED file /\ dirOf[t] \in others' \cup failed'
  PROVE  ActionInv'
<1>1. /\ dirOf[t] \in Dirs
      /\ \A u \in Threads \ {t} : Working(u) => dirOf[u] # dirOf[t]
  BY DEF ActionInv, OwnDirs
<1>2. /\ ~Working(t)'
      /\ \A u \in Threads \ {t} : /\ Working(u)' <=> Working(u)
                                  /\ at'[u] = at[u] /\ dirOf'[u] = dirOf[u]
                                  /\ wrote'[u] = wrote[u]
  BY DEF ActionInv, ActionTypeOK, Working, Ended
<1>3. \A d \in Dirs \ {dirOf[t]} : file'[d] = file[d]
  BY <1>1 DEF ActionInv, ActionTypeOK
<1>4. ActionTypeOK'
  BY DEF ActionInv, ActionTypeOK, EnvPlaces, Contents
<1>5. OwnDirs'
  <2>1. \A u \in Threads : Working(u)' =>
          /\ u # t /\ Working(u) /\ dirOf'[u] = dirOf[u]
          /\ dirOf[u] \in Dirs \ {dirOf[t]}
    BY <1>1, <1>2 DEF ActionInv, OwnDirs
  <2>2. \A u \in Threads : Working(u)' =>
          dirOf'[u] \in Dirs /\ file'[dirOf'[u]] # "no directory"
    BY <1>3, <2>1, ZenonT(60) DEF ActionInv, OwnDirs
  <2>3. \A u, v \in Threads :
          Working(u)' /\ Working(v)' /\ u # v => dirOf'[u] # dirOf'[v]
    BY <2>1, ZenonT(60) DEF ActionInv, OwnDirs
  <2> QED
    BY <2>2, <2>3 DEF OwnDirs
<1>6. FileKnown'
  <2> SUFFICES ASSUME NEW u \in Threads, at'[u] \in {"run", "rmdir"}
               PROVE  /\ at'[u] = "run" => file'[dirOf'[u]] = wrote'[u]
                      /\ at'[u] = "rmdir" =>
                           file'[dirOf'[u]] = "no file" \/ dirOf'[u] \in failed'
    BY DEF FileKnown
  <2>1. u # t /\ Working(u)
    BY <1>2 DEF Working
  <2>2. dirOf[u] \in Dirs \ {dirOf[t]}
    BY <1>1, <2>1 DEF ActionInv, OwnDirs
  <2>3. /\ at'[u] = at[u] /\ dirOf'[u] = dirOf[u] /\ wrote'[u] = wrote[u]
        /\ file'[dirOf[u]] = file[dirOf[u]]
    BY <1>2, <1>3, <2>1, <2>2
  <2>4. /\ at[u] = "run" => file[dirOf[u]] = wrote[u]
        /\ at[u] = "rmdir" => file[dirOf[u]] = "no file" \/ dirOf[u] \in failed
    BY DEF ActionInv, FileKnown
  <2> QED
    BY <2>3, <2>4
<1>7. NothingLeft'
  <2> SUFFICES ASSUME NEW d \in Dirs, file'[d] # "no directory",
                      d \notin others' \cup failed'
               PROVE  \E u \in Threads : Working(u)' /\ dirOf'[u] = d
    BY DEF NothingLeft
  <2>1. d # dirOf[t]
    BY <1>1 DEF ActionInv, ActionTypeOK
  <2>2. PICK u \in Threads : Working(u) /\ dirOf[u] = d
    BY <1>3, <2>1 DEF ActionInv, NothingLeft
  <2> QED
    BY <1>2, <2>1, <2>2
<1> QED
  BY <1>4, <1>5, <1>6, <1>7 DEF ActionInv

LEMMA ActionInvStep == ActionInv /\ [Next]_vars => ActionInv'
<1> SUFFICES ASSUME ActionInv, [Next]_vars
             PROVE  ActionInv'
  OBVIOUS
<1>1. CASE UNCHANGED vars
  BY <1>1, ZenonT(60) DEF vars, envVars, actionVars, ActionInv, ActionTypeOK, OwnDirs, FileKnown,
              NothingLeft, Working
<1>2. ASSUME NEW t \in Threads, EnvStep(t), UNCHANGED actionVars
      PROVE  ActionInv'
  BY <1>2, EnvStepPlaces, OtherSteps DEF actionVars
<1>3. ASSUME NEW t \in Threads, ActionStep(t)
      PROVE  ActionInv'
  <2>1. CASE Loads(t)
    BY <2>1, ZenonT(60) DEF Loads, envVars, ActionInv, ActionTypeOK, OwnDirs, FileKnown,
                NothingLeft, Working
  <2>2. CASE ActionElsewhere(t)
    BY <2>2, OtherSteps DEF ActionElsewhere, Calls, CallsWith, actionVars, EnvPlaces, Ended
  <2>3. CASE MakesDir(t)
    BY <2>3, MakesDirStep
  <2>4. CASE Opens(t)
    <3>1. Working(t)
      BY <2>4 DEF Opens, Does, Leaves, Goes, Working
    <3>2. CASE /\ Does(t, "open", "write") /\ Puts(t, "cut")
               /\ UNCHANGED <<dirOf, threw, wrote, failed, others>>
      BY <3>1, <3>2, WorkStep DEF Does, Goes, Puts, WorkPlaces, ActionInv, ActionTypeOK
    <3>3. CASE /\ Leaves(t, "open", "raised") /\ Fails(t)
               /\ UNCHANGED <<file, others>>
      BY <3>1, <3>3, LeaveStep DEF Leaves, Does, Goes, Fails, Ended
    <3> QED
      BY <2>4, <3>2, <3>3 DEF Opens
  <2>5. CASE WritesFile(t)
    <3>1. PICK content \in Contents :
            Puts(t, content) /\ wrote' = [wrote EXCEPT ![t] = content]
      BY <2>5 DEF WritesFile
    <3>2. Working(t) /\ at' = [at EXCEPT ![t] = "run"]
      BY <2>5 DEF WritesFile, Does, Goes, Working
    <3>3. dirOf[t] \in Dirs
      BY <3>2 DEF ActionInv, OwnDirs
    <3>4. /\ file'[dirOf[t]] = wrote'[t]
          /\ wrote' \in [Threads -> Contents]
          /\ \A u \in Threads \ {t} : wrote'[u] = wrote[u]
      BY <3>1, <3>3 DEF Puts, ActionInv, ActionTypeOK
    <3>5. UNCHANGED <<dirOf, others, threw, failed>>
      BY <2>5 DEF WritesFile
    <3> QED
      BY <3>1, <3>2, <3>4, <3>5, WorkStep DEF Puts, Contents, WorkPlaces
  <2>6. CASE RunsAction(t)
    <3>1. /\ Working(t) /\ at' = [at EXCEPT ![t] = "unlink"]
          /\ UNCHANGED <<dirOf, file, wrote, failed>> /\ others \subseteq others'
      BY <2>6 DEF RunsAction, AfterAction, Does, Goes, Working
    <3> QED
      BY <3>1, WorkStep DEF WorkPlaces, ActionInv, ActionTypeOK
  <2>7. CASE Unlinks(t)
    <3>1. /\ Working(t) /\ at' = [at EXCEPT ![t] = "rmdir"]
          /\ UNCHANGED <<dirOf, wrote, others>>
      BY <2>7 DEF Unlinks, Does, Goes, Working
    <3>2. dirOf[t] \in Dirs
      BY <3>1 DEF ActionInv, OwnDirs
    <3>3. /\ file' = [file EXCEPT ![dirOf[t]] = "no file"] \/ UNCHANGED file
          /\ failed \subseteq failed'
          /\ file'[dirOf[t]] = "no file" \/ dirOf[t] \in failed'
      BY <2>7, <3>2 DEF Unlinks, Puts, Fails, ActionInv, ActionTypeOK
    <3> QED
      BY <3>1, <3>3, WorkStep DEF WorkPlaces, ActionInv, ActionTypeOK
  <2>8. CASE RemovesDir(t)
    <3>1. /\ Working(t) /\ at[t] = "rmdir"
          /\ at' = [at EXCEPT ![t] = IF threw[t] THEN "raised" ELSE "idle"]
          /\ dirOf' = [dirOf EXCEPT ![t] = NoDir]
          /\ wrote' = [wrote EXCEPT ![t] = "cut"]
          /\ UNCHANGED others /\ failed \subseteq failed'
      BY <2>8 DEF RemovesDir, Leaves, Does, Goes, Working, Fails
    <3>2. \/ file' = [file EXCEPT ![dirOf[t]] = "no directory"]
          \/ UNCHANGED file /\ dirOf[t] \in others' \cup failed'
      BY <2>8, <3>1 DEF RemovesDir, Puts, Fails, ActionInv, FileKnown
    <3> QED
      BY <3>1, <3>2, LeaveStep DEF Ended
  <2> QED
    BY <1>3, <2>1, <2>2, <2>3, <2>4, <2>5, <2>6, <2>7, <2>8 DEF ActionStep
<1> QED
  BY <1>1, <1>2, <1>3 DEF Next

\* While the action of a thread runs, the file at its path holds what that
\* thread's write put there, whatever the other threads do
\* (luvibundle.lua:322-330).
THEOREM ActionFileHolds == Spec => []ActionFile
<1>1. ActionInv => ActionFile
  BY DEF ActionInv, FileKnown, OwnDirs, ActionFile, Working
<1> QED
  BY <1>1, ActionInitially, ActionInvStep, PTL DEF Spec

\* A temporary directory that nobody works in is one that the action left files in,
\* or that fs_open or fs_unlink failed in, or fs_rmdir although it was empty
\* (luvibundle.lua:319-332).
THEOREM NothingLeftBehind == Spec => []NothingLeft
<1>1. ActionInv => NothingLeft
  BY DEF ActionInv
<1> QED
  BY <1>1, ActionInitially, ActionInvStep, PTL DEF Spec

-----------------------------------------------------------------------------
(* get.                                                                    *)
Variable == [name : Names, value : Values]

LEMMA ValueTyped ==
  ASSUME NEW e \in Seq(Variable), NEW name
  PROVE  ValueIn(e, name) \in Values \cup {Unset}
<1>1. CASE \E i \in DOMAIN e : e[i].name = name
  <2>1. Position(e, name) \in DOMAIN e
    BY <1>1 DEF Position
  <2>2. e[Position(e, name)] \in Variable
    BY <2>1
  <2> QED
    BY <1>1, <2>2 DEF ValueIn, Variable
<1>2. CASE ~\E i \in DOMAIN e : e[i].name = name
  BY <1>2 DEF ValueIn
<1> QED
  BY <1>1, <1>2

LEMMA ValuesNat == Values \subseteq Nat
  BY EnvAssumption DEF Values

\* A value that does not fit is longer than the one that was measured.
LEMMA NotFits ==
  ASSUME NEW v \in Values \cup {Unset}, NEW w \in Values, ~(v # Unset /\ Fits(v, w + 1))
  PROVE  v = Unset \/ v > w
<1>1. CASE v \in Nat
  <2>1. w \in Nat /\ v # Unset
    BY <1>1, ValuesNat DEF Unset
  <2>2. ~(v + 1 <= w + 1)
    BY <2>1 DEF Fits
  <2> QED
    BY <1>1, <2>1, <2>2
<1> QED
  BY <1>1, ValuesNat

LEMMA WithTyped ==
  ASSUME NEW e \in Seq(Variable), NEW name \in Names, NEW v \in Values
  PROVE  With(e, name, v) \in Seq(Variable)
<1> DEFINE r == [name |-> name, value |-> v]
<1>1. r \in Variable
  BY DEF Variable
<1>2. Append(e, r) \in Seq(Variable)
  BY <1>1, AppendProperties
<1>3. ASSUME ValueIn(e, name) # Unset
      PROVE  [e EXCEPT ![Position(e, name)] = r] \in Seq(Variable)
  <2>1. Position(e, name) \in DOMAIN e
    BY <1>3 DEF ValueIn, Position
  <2> QED
    BY <1>1, <2>1, ExceptSeq
<1> QED
  BY <1>2, <1>3 DEF With

LEMMA WithoutTyped ==
  ASSUME NEW e \in Seq(Variable), NEW name
  PROVE  Without(e, name) \in Seq(Variable)
<1>1. CASE ValueIn(e, name) = Unset
  BY <1>1 DEF Without
<1>2. CASE ValueIn(e, name) # Unset
  <2>1. DOMAIN e # {}
    BY <1>2 DEF ValueIn
  <2>2. DOMAIN e = 1 .. Len(e) /\ Len(e) \in Nat /\ Len(e) - 1 \in Nat
    BY <2>1, LenProperties
  <2>3. \A i \in 1 .. Len(e) - 1 :
          (IF i < Position(e, name) THEN e[i] ELSE e[i + 1]) \in Variable
    BY <2>2
  <2>4. Without(e, name) \in [1 .. Len(e) - 1 -> Variable]
    BY <1>2, <2>3 DEF Without
  <2> QED
    BY <2>2, <2>4, SeqDef
<1> QED
  BY <1>1, <1>2

GetTypeOK ==
    /\ environ \in Seq(Variable)
    /\ at \in [Threads -> EnvPlaces \cup WorkPlaces]
    /\ arg \in [Threads -> Names \cup {"", "show_hidden"}]
    /\ size \in [Threads -> Nat]
    /\ value \in [Threads -> Values \cup {Unset, Garbage}]
    /\ seen \in [Threads -> SUBSET Seq(Variable)]
    /\ written \in [Threads -> SUBSET Names]

\* Between getenv and the copy get has a pointer to a value there was.
PointedTrue(t) ==
    at[t] = "pointed" =>
        /\ platform = "posix" /\ environ \in seen[t]
        /\ \E e \in seen[t] : value[t] = ValueIn(e, arg[t])

\* Between its two calls get knows the size of a value there was.
SizedTrue(t) ==
    at[t] = "sized" =>
        /\ platform = "windows" /\ environ \in seen[t]
        /\ \E e \in seen[t] : /\ ValueIn(e, arg[t]) \in Values
                             /\ size[t] = ValueIn(e, arg[t]) + 1

GotTrue(t) ==
    at[t] = "got" =>
        LET had == {ValueIn(e, arg[t]) : e \in seen[t]}
        IN  \/ value[t] \in had
            \/ /\ value[t] = Garbage /\ platform = "posix" /\ arg[t] \in written[t]
            \/ /\ value[t] = Garbage /\ platform = "windows"
               /\ \E v \in had \ {Unset} : \E w \in had : w = Unset \/ w > v

GetInv == GetTypeOK /\ \A t \in Threads : PointedTrue(t) /\ SizedTrue(t) /\ GotTrue(t)

LEMMA GetInitially == Init => GetInv
<1> SUFFICES ASSUME Init PROVE GetInv
  OBVIOUS
<1>1. EnvInit
  BY DEF Init
<1>2. 0 \in Values
  BY EnvAssumption DEF Values
<1>3. environ \in Seq(Variable)
  <2>1. environ \in [1 .. 2 -> Variable]
    BY <1>1, <1>2 DEF EnvInit, Variable
  <2> QED
    BY <2>1, SeqDef
<1>4. GetTypeOK
  BY <1>1, <1>3 DEF EnvInit, GetTypeOK, EnvPlaces, Ended
<1> QED
  BY <1>1, <1>4 DEF EnvInit, GetInv, PointedTrue, SizedTrue, GotTrue

\* A step of thread t leaves what the others know, who see what it writes.
LEMMA GetKept ==
  ASSUME GetInv, GetTypeOK', UNCHANGED platform,
         NEW t \in Threads, PointedTrue(t)', SizedTrue(t)', GotTrue(t)',
         \A u \in Threads \ {t} :
            /\ at'[u] = at[u] /\ arg'[u] = arg[u]
            /\ size'[u] = size[u] /\ value'[u] = value[u]
            /\ at[u] = "got" => seen'[u] = seen[u] /\ written'[u] = written[u]
            /\ at[u] \in {"pointed", "sized"} =>
                 seen[u] \subseteq seen'[u] /\ environ' \in seen'[u]
  PROVE  GetInv'
<1> SUFFICES ASSUME NEW u \in Threads, u # t
             PROVE  PointedTrue(u)' /\ SizedTrue(u)' /\ GotTrue(u)'
  BY DEF GetInv
<1>1. PointedTrue(u) /\ SizedTrue(u) /\ GotTrue(u)
  BY DEF GetInv
<1>2. PointedTrue(u)'
  BY <1>1 DEF PointedTrue
<1>3. SizedTrue(u)'
  BY <1>1 DEF SizedTrue
<1>4. GotTrue(u)'
  BY <1>1 DEF GotTrue
<1> QED
  BY <1>2, <1>3, <1>4

\* A call with an end of its own, which writes or not.
LEMMA CallsKept ==
  ASSUME GetInv, NEW t \in Threads,
         NEW step \in (EnvPlaces \cup WorkPlaces) \ {"pointed", "sized", "got"},
         NEW name \in Names \cup {"", "show_hidden"}, NEW n \in Nat, NEW list,
         CallsWith(t, step, name, n, list, Unset), Reads(t)
  PROVE  GetInv'
<1>1. GetTypeOK'
  BY DEF GetInv, GetTypeOK, CallsWith, Reads
<1>2. PointedTrue(t)' /\ SizedTrue(t)' /\ GotTrue(t)'
  BY DEF GetInv, GetTypeOK, CallsWith, PointedTrue, SizedTrue, GotTrue
<1>3. UNCHANGED platform
  BY DEF CallsWith
<1>4. \A u \in Threads \ {t} :
        /\ at'[u] = at[u] /\ arg'[u] = arg[u]
        /\ size'[u] = size[u] /\ value'[u] = value[u]
        /\ at[u] = "got" => seen'[u] = seen[u] /\ written'[u] = written[u]
        /\ at[u] \in {"pointed", "sized"} =>
             seen[u] \subseteq seen'[u] /\ environ' \in seen'[u]
  BY DEF GetInv, GetTypeOK, CallsWith, Reads, PointedTrue, SizedTrue
<1> QED
  BY <1>1, <1>2, <1>3, <1>4, GetKept

LEMMA WritesKept ==
  ASSUME GetInv, NEW t \in Threads, NEW name \in Names, NEW e \in Seq(Variable),
         Writes(t, name, e)
  PROVE  GetInv'
<1>1. GetTypeOK'
  BY DEF GetInv, GetTypeOK, Writes, Calls, CallsWith, EnvPlaces, Ended
<1>2. PointedTrue(t)' /\ SizedTrue(t)' /\ GotTrue(t)'
  BY DEF GetInv, GetTypeOK, Writes, Calls, CallsWith, PointedTrue, SizedTrue, GotTrue
<1>3. UNCHANGED platform
  BY DEF Writes, Calls, CallsWith
<1>4. \A u \in Threads \ {t} :
        /\ at'[u] = at[u] /\ arg'[u] = arg[u]
        /\ size'[u] = size[u] /\ value'[u] = value[u]
        /\ at[u] = "got" => seen'[u] = seen[u] /\ written'[u] = written[u]
        /\ at[u] \in {"pointed", "sized"} =>
             seen[u] \subseteq seen'[u] /\ environ' \in seen'[u]
  BY DEF GetInv, GetTypeOK, Writes, Calls, CallsWith, Ended
<1> QED
  BY <1>1, <1>2, <1>3, <1>4, GetKept

LEMMA GoesKept ==
  ASSUME GetInv, NEW t \in Threads, NEW from,
         NEW to \in (EnvPlaces \cup WorkPlaces) \ {"pointed", "sized", "got"},
         Goes(t, from, to), UNCHANGED <<size, value, seen>>
  PROVE  GetInv'
<1>1. GetTypeOK'
  BY DEF GetInv, GetTypeOK, Goes
<1>2. PointedTrue(t)' /\ SizedTrue(t)' /\ GotTrue(t)'
  BY DEF GetInv, GetTypeOK, Goes, PointedTrue, SizedTrue, GotTrue
<1>3. UNCHANGED platform
  BY DEF Goes
<1>4. \A u \in Threads \ {t} :
        /\ at'[u] = at[u] /\ arg'[u] = arg[u]
        /\ size'[u] = size[u] /\ value'[u] = value[u]
        /\ at[u] = "got" => seen'[u] = seen[u] /\ written'[u] = written[u]
        /\ at[u] \in {"pointed", "sized"} =>
             seen[u] \subseteq seen'[u] /\ environ' \in seen'[u]
  BY DEF GetInv, GetTypeOK, Goes, PointedTrue, SizedTrue
<1> QED
  BY <1>1, <1>2, <1>3, <1>4, GetKept

LEMMA GetStep ==
  ASSUME GetInv, NEW t \in Threads, NEW name \in Names, lenv_get(t, name)
  PROVE  GetInv'
<1> DEFINE v == ValueIn(environ, name)
           Sized == v # Unset /\ platform = "windows"
                      /\ CallsWith(t, "sized", name, v + 1, <<>>, Unset)
           Pointed == v # Unset /\ platform = "posix"
                        /\ CallsWith(t, "pointed", name, 0, <<>>, v)
           Got == v = Unset /\ CallsWith(t, "got", name, 0, <<>>, Unset)
<1>1. (Sized \/ Pointed \/ Got) /\ Reads(t)
  BY DEF lenv_get
<1>2. v \in Values \cup {Unset}
  BY ValueTyped DEF GetInv, GetTypeOK
<1>3. /\ environ' = environ /\ seen' = [seen EXCEPT ![t] = {environ}]
      /\ written' = [written EXCEPT ![t] = {}]
  BY <1>1 DEF Reads
<1>4. /\ seen'[t] = {environ} /\ environ' \in Seq(Variable)
      /\ seen' \in [Threads -> SUBSET Seq(Variable)]
      /\ written' \in [Threads -> SUBSET Names]
  BY <1>3 DEF GetInv, GetTypeOK
<1>5. CASE Sized
  <2>1. /\ at'[t] = "sized" /\ arg'[t] = name /\ size'[t] = v + 1
        /\ UNCHANGED platform
    BY <1>5 DEF CallsWith, GetInv, GetTypeOK
  <2>2. PointedTrue(t)' /\ SizedTrue(t)' /\ GotTrue(t)'
    BY <1>2, <1>3, <1>4, <1>5, <2>1 DEF PointedTrue, SizedTrue, GotTrue
  <2> HIDE DEF v
  <2>3. v + 1 \in Nat
    BY <1>2, <1>5, ValuesNat
  <2>4. GetTypeOK'
    BY <1>4, <1>5, <2>3 DEF GetInv, GetTypeOK, CallsWith, EnvPlaces
  <2>5. \A u \in Threads \ {t} :
          /\ at'[u] = at[u] /\ arg'[u] = arg[u]
          /\ size'[u] = size[u] /\ value'[u] = value[u]
          /\ at[u] = "got" => seen'[u] = seen[u] /\ written'[u] = written[u]
          /\ at[u] \in {"pointed", "sized"} =>
               seen[u] \subseteq seen'[u] /\ environ' \in seen'[u]
    BY <1>3, <1>5 DEF GetInv, GetTypeOK, CallsWith, PointedTrue, SizedTrue
  <2> QED
    BY <2>1, <2>2, <2>4, <2>5, GetKept
<1>6. CASE Pointed \/ Got
  <2>1. /\ at'[t] \in {"pointed", "got"} /\ arg'[t] = name /\ value'[t] = v
        /\ at'[t] = "pointed" => platform' = "posix"
        /\ UNCHANGED platform
    BY <1>6 DEF CallsWith, GetInv, GetTypeOK
  <2>2. PointedTrue(t)' /\ SizedTrue(t)' /\ GotTrue(t)'
    BY <1>3, <1>4, <2>1 DEF PointedTrue, SizedTrue, GotTrue
  <2> HIDE DEF v
  <2>3. GetTypeOK'
    <3>1. CASE CallsWith(t, "pointed", name, 0, <<>>, v)
      BY <1>2, <1>4, <3>1 DEF GetInv, GetTypeOK, CallsWith, EnvPlaces
    <3>2. CASE CallsWith(t, "got", name, 0, <<>>, Unset)
      BY <1>4, <3>2 DEF GetInv, GetTypeOK, CallsWith, EnvPlaces, Ended
    <3> QED
      BY <1>6, <3>1, <3>2
  <2>4. \A u \in Threads \ {t} :
          /\ at'[u] = at[u] /\ arg'[u] = arg[u]
          /\ size'[u] = size[u] /\ value'[u] = value[u]
          /\ at[u] = "got" => seen'[u] = seen[u] /\ written'[u] = written[u]
          /\ at[u] \in {"pointed", "sized"} =>
               seen[u] \subseteq seen'[u] /\ environ' \in seen'[u]
    BY <1>3, <1>6 DEF GetInv, GetTypeOK, CallsWith, PointedTrue, SizedTrue
  <2> QED
    BY <2>1, <2>2, <2>3, <2>4, GetKept
<1> QED
  BY <1>1, <1>5, <1>6

\* The copy finds the value pointed to, or what another thread's write left there.
LEMMA CopyStep ==
  ASSUME GetInv, NEW t \in Threads, CopiesValue(t)
  PROVE  GetInv'
<1>1. CASE Goes(t, "pointed", "raised") /\ UNCHANGED <<value, size, keys, seen>>
  BY <1>1, GoesKept DEF EnvPlaces, Ended
<1>2. CASE /\ Goes(t, "pointed", "got") /\ UNCHANGED <<size, keys, seen>>
           /\ \E v \in AtPointer(t) : value' = [value EXCEPT ![t] = v]
  <2>1. PICK v \in AtPointer(t) : value' = [value EXCEPT ![t] = v]
    BY <1>2
  <2>2. PICK e \in seen[t] : /\ platform = "posix" /\ environ \in seen[t]
                             /\ value[t] = ValueIn(e, arg[t])
    BY <1>2 DEF GetInv, PointedTrue, Goes
  <2>3. v \in Values \cup {Unset, Garbage}
    BY ValueTyped DEF AtPointer, GetInv, GetTypeOK
  <2>4. GetTypeOK'
    BY <1>2, <2>1, <2>3 DEF GetInv, GetTypeOK, Goes, EnvPlaces, Ended
  <2>5. /\ at'[t] = "got" /\ value'[t] = v
        /\ UNCHANGED <<platform, environ, arg, seen, written>>
    BY <1>2, <2>1 DEF Goes, GetInv, GetTypeOK
  <2>6. \/ v = ValueIn(e, arg[t]) \/ v = ValueIn(environ, arg[t])
        \/ v = Garbage /\ arg[t] \in written[t]
    BY <2>2 DEF AtPointer
  <2>7. PointedTrue(t)' /\ SizedTrue(t)' /\ GotTrue(t)'
    BY <2>2, <2>5, <2>6 DEF PointedTrue, SizedTrue, GotTrue
  <2>8. \A u \in Threads \ {t} :
          /\ at'[u] = at[u] /\ arg'[u] = arg[u]
          /\ size'[u] = size[u] /\ value'[u] = value[u]
          /\ at[u] = "got" => seen'[u] = seen[u] /\ written'[u] = written[u]
          /\ at[u] \in {"pointed", "sized"} =>
               seen[u] \subseteq seen'[u] /\ environ' \in seen'[u]
    BY <1>2, <2>1 DEF GetInv, GetTypeOK, Goes, PointedTrue, SizedTrue
  <2> QED
    BY <2>4, <2>5, <2>7, <2>8, GetKept
<1> QED
  BY <1>1, <1>2 DEF CopiesValue

\* The second call finds the size right, or the variable gone or longer.
LEMMA ValueStep ==
  ASSUME GetInv, NEW t \in Threads, GetsValue(t)
  PROVE  GetInv'
<1> DEFINE v == ValueIn(environ, arg[t])
<1>1. CASE Goes(t, "sized", "raised") /\ UNCHANGED <<value, size, keys, seen>>
  BY <1>1, GoesKept DEF EnvPlaces, Ended
<1>2. CASE /\ Goes(t, "sized", "got") /\ UNCHANGED <<size, keys, seen>>
           /\ value' = [value EXCEPT ![t] =
                          IF v # Unset /\ Fits(v, size[t]) THEN v ELSE Garbage]
  <2>1. v \in Values \cup {Unset}
    BY ValueTyped DEF GetInv, GetTypeOK
  <2>2. PICK e \in seen[t] : /\ platform = "windows" /\ environ \in seen[t]
                             /\ ValueIn(e, arg[t]) \in Values
                             /\ size[t] = ValueIn(e, arg[t]) + 1
    BY <1>2 DEF GetInv, SizedTrue, Goes
  <2> HIDE DEF v
  <2>3. GetTypeOK'
    BY <1>2, <2>1 DEF GetInv, GetTypeOK, Goes, EnvPlaces, Ended
  <2>4. PointedTrue(t)' /\ SizedTrue(t)'
    BY <1>2 DEF GetInv, GetTypeOK, Goes, PointedTrue, SizedTrue
  <2>5. GotTrue(t)'
    <3>1. UNCHANGED <<platform, environ, arg, seen>>
      BY <1>2 DEF Goes
    <3>2. CASE v # Unset /\ Fits(v, size[t])
      BY <1>2, <2>2, <3>1, <3>2 DEF GotTrue, GetInv, GetTypeOK, v
    <3>3. CASE ~(v # Unset /\ Fits(v, size[t]))
      <4>1. v = Unset \/ v > ValueIn(e, arg[t])
        BY <2>1, <2>2, <3>3, NotFits
      <4>2. ValueIn(e, arg[t]) # Unset
        BY <2>2, ValuesNat DEF Unset
      <4>3. value'[t] = Garbage
        BY <1>2, <3>3 DEF GetInv, GetTypeOK
      <4> QED
        BY <2>2, <3>1, <4>1, <4>2, <4>3 DEF GotTrue, v
    <3> QED
      BY <3>2, <3>3
  <2>6. \A u \in Threads \ {t} :
          /\ at'[u] = at[u] /\ arg'[u] = arg[u]
          /\ size'[u] = size[u] /\ value'[u] = value[u]
          /\ at[u] = "got" => seen'[u] = seen[u] /\ written'[u] = written[u]
          /\ at[u] \in {"pointed", "sized"} =>
               seen[u] \subseteq seen'[u] /\ environ' \in seen'[u]
    BY <1>2 DEF GetInv, GetTypeOK, Goes, PointedTrue, SizedTrue
  <2>7. UNCHANGED platform
    BY <1>2 DEF Goes
  <2> QED
    BY <2>3, <2>4, <2>5, <2>6, <2>7, GetKept
<1> QED
  BY <1>1, <1>2 DEF GetsValue

LEMMA GetInvStep == GetInv /\ [Next]_vars => GetInv'
<1> SUFFICES ASSUME GetInv, [Next]_vars
             PROVE  GetInv'
  OBVIOUS
<1>1. CASE UNCHANGED envVars
  BY <1>1, ZenonT(60) DEF envVars, GetInv, GetTypeOK, PointedTrue, SizedTrue, GotTrue
<1>2. ASSUME NEW t \in Threads, EnvStep(t)
      PROVE  GetInv'
  <2>1. CASE Raises(t)
    BY <2>1, CallsKept DEF Raises, Calls, EnvPlaces, Ended
  <2>2. ASSUME NEW name \in Names, NEW v \in Values, lenv_set(t, name, v)
        PROVE  GetInv'
    BY <2>2, WithTyped, WritesKept DEF lenv_set, GetInv, GetTypeOK
  <2>3. ASSUME NEW name \in Names, lenv_unset(t, name)
        PROVE  GetInv'
    BY <2>3, WithoutTyped, WritesKept DEF lenv_unset, GetInv, GetTypeOK
  <2>4. ASSUME NEW name \in Names, lenv_get(t, name)
        PROVE  GetInv'
    BY <2>4, GetStep
  <2>5. ASSUME NEW show \in BOOLEAN, KeysOfCopy(t, show)
        PROVE  GetInv'
    BY <2>5, CallsKept DEF KeysOfCopy, EnvPlaces, Ended
  <2>6. CASE GetsValue(t)
    BY <2>6, ValueStep
  <2>7. CASE CountsKeys(t)
    BY <2>7, CallsKept, LenProperties DEF CountsKeys, EnvPlaces, GetInv, GetTypeOK
  <2>8. CASE ReadsKey(t)
    BY <2>8, GoesKept DEF ReadsKey, EnvPlaces, Ended
  <2>9. CASE CopiesValue(t)
    BY <2>9, CopyStep
  <2> QED
    BY <1>2, <2>1, <2>2, <2>3, <2>4, <2>5, <2>6, <2>7, <2>8, <2>9 DEF EnvStep
<1>3. ASSUME NEW t \in Threads, ActionStep(t)
      PROVE  GetInv'
  <2>1. CASE Loads(t)
    BY <1>1, <2>1 DEF Loads
  <2>2. CASE ActionElsewhere(t)
    BY <2>2, CallsKept DEF ActionElsewhere, Calls, EnvPlaces, Ended
  <2>3. CASE MakesDir(t)
    BY <2>3, CallsKept DEF MakesDir, Calls, WorkPlaces
  <2>4. ASSUME NEW from, NEW to \in WorkPlaces \cup {"raised", "idle"}, Does(t, from, to)
        PROVE  GetInv'
    BY <2>4, GoesKept DEF Does, WorkPlaces, EnvPlaces, Ended
  <2>5. CASE Opens(t)
    BY <2>4, <2>5 DEF Opens, Leaves, WorkPlaces
  <2>6. CASE WritesFile(t)
    BY <2>4, <2>6 DEF WritesFile, WorkPlaces
  <2>7. CASE RunsAction(t)
    BY <2>4, <2>7 DEF RunsAction, AfterAction, WorkPlaces
  <2>8. CASE Unlinks(t)
    BY <2>4, <2>8 DEF Unlinks, WorkPlaces
  <2>9. CASE RemovesDir(t)
    BY <2>4, <2>9 DEF RemovesDir, Leaves
  <2> QED
    BY <1>3, <2>1, <2>2, <2>3, <2>5, <2>6, <2>7, <2>8, <2>9 DEF ActionStep
<1> QED
  BY <1>1, <1>2, <1>3 DEF Next, vars

\* What get returns is a value the variable had during the call, unless another
\* thread wrote that variable between its two steps: on POSIX in any way, on Windows
\* only if it unset it or made its value longer (lenv.c:100-151).
THEOREM GetReturnsTrue == Spec => []GetTrue
<1>1. GetInv => GetTrue
  BY DEF GetInv, GotTrue, GetTrue
<1> QED
  BY <1>1, GetInitially, GetInvStep, PTL DEF Spec

-----------------------------------------------------------------------------
(* keys.                                                                   *)

\* The positions of what keys lists of an environment.
Listed(e, hidden) == {i \in 1 .. Len(e) : e[i].name \notin hidden}

LEMMA PlaceOfAll ==
  ASSUME NEW m \in Nat, NEW S, S = 1 .. m
  PROVE  \A n \in 0 .. m : Place(S, n) = n
<1> DEFINE T == {n \in Nat : n <= m => Place(S, n) = n}
<1>1. S \in SUBSET Nat
  OBVIOUS
<1>2. 0 \in T
  BY <1>1, PlaceNext
<1>3. ASSUME NEW n \in Nat, n \in T PROVE n + 1 \in T
  <2>1. Place(S, n + 1) = IF n + 1 \in S THEN Place(S, n) + 1 ELSE Place(S, n)
    BY <1>1, PlaceNext
  <2> QED
    BY <1>3, <2>1
<1> HIDE DEF T
<1>4. Nat \subseteq T
  BY <1>2, <1>3, NatSetInduction
<1> QED
  BY <1>4 DEF T

LEMMA ListingDef ==
  ASSUME NEW e \in Seq(Variable), NEW show
  PROVE  Listing(e, show) =
           [n \in 0 .. Len(e) |->
              IF n = 0 THEN <<>> ELSE Adds(Listing(e, show)[n - 1], e[n], show)]
<1> DEFINE D(m, f) == f = [n \in 0 .. m |->
                             IF n = 0 THEN <<>> ELSE Adds(f[n - 1], e[n], show)]
           S == {m \in Nat : \E f : D(m, f)}
<1>1. D(0, [n \in 0 .. 0 |-> <<>>])
  OBVIOUS
<1>2. ASSUME NEW m \in Nat, NEW f, D(m, f) PROVE \E g : D(m + 1, g)
  <2> DEFINE g == [n \in 0 .. m + 1 |->
                     IF n = m + 1 THEN Adds(f[m], e[m + 1], show) ELSE f[n]]
  <2>1. D(m + 1, g)
    BY <1>2
  <2> QED
    BY <2>1
<1>3. Nat \subseteq S
  <2>1. 0 \in S
    BY <1>1
  <2>2. ASSUME NEW m \in Nat, m \in S PROVE m + 1 \in S
    <3>1. PICK f : D(m, f)
      BY <2>2
    <3>2. \E g : D(m + 1, g)
      BY <1>2, <3>1
    <3> HIDE DEF D
    <3> QED
      BY <3>2
  <2> HIDE DEF S
  <2> QED
    BY <2>1, <2>2, NatSetInduction
<1>4. \E f : D(Len(e), f)
  <2> HIDE DEF D
  <2> QED
    BY <1>3, LenProperties
<1> QED
  BY <1>4 DEF Listing

\* The loop lists each entry that is not hidden, at the place it has among them.
LEMMA ListingLists ==
  ASSUME NEW e \in Seq(Variable), NEW show \in BOOLEAN,
         NEW hidden, hidden = IF show THEN {} ELSE {"="}
  PROVE  Listing(e, show)[Len(e)] \in Seq(Names) /\ Lists(Listing(e, show)[Len(e)], e, hidden)
<1> DEFINE m == Len(e)
           S == Listed(e, hidden)
           list == Listing(e, show)
           Good(n) == /\ list[n] \in Seq(Names) /\ Len(list[n]) = Place(S, n)
                      /\ \A i \in S \cap 1 .. n : /\ Place(S, i) \in 1 .. Place(S, n)
                                                  /\ list[n][Place(S, i)] = e[i].name
           T == {n \in Nat : n <= m => Good(n)}
<1>1. m \in Nat /\ \A i \in 1 .. m : e[i].name \in Names
  <2>1. m \in Nat /\ \A i \in 1 .. m : e[i] \in Variable
    BY LenProperties, ElementOfSeq
  <2> QED
    BY <2>1 DEF Variable
<1>2. S \in SUBSET Nat /\ \A i \in 1 .. m : i \in S <=> Shown(e[i], show)
  BY <1>1 DEF Listed, Shown
<1>3. list = [n \in 0 .. m |->
                IF n = 0 THEN <<>> ELSE Adds(list[n - 1], e[n], show)]
  BY ListingDef
<1> HIDE DEF list, m, S
<1>4. 0 \in T
  <2>1. list[0] = <<>> /\ Place(S, 0) = 0 /\ S \cap 1 .. 0 = {}
    BY <1>1, <1>2, <1>3, PlaceNext
  <2> QED
    BY <2>1, EmptySeq
<1>5. ASSUME NEW n \in Nat, n \in T PROVE n + 1 \in T
  <2> SUFFICES ASSUME n + 1 <= m PROVE Good(n + 1)
    OBVIOUS
  <2>1. Good(n) /\ n + 1 \in 1 .. m
    BY <1>1, <1>5
  <2>2. list[n + 1] = IF n + 1 \in S THEN Append(list[n], e[n + 1].name) ELSE list[n]
    <3>1. list[n + 1] = Adds(list[n], e[n + 1], show)
      BY <1>1, <1>3, <2>1
    <3> QED
      BY <1>2, <2>1, <3>1 DEF Adds
  <2>3. /\ Place(S, n) \in Nat
        /\ Place(S, n + 1) = IF n + 1 \in S THEN Place(S, n) + 1 ELSE Place(S, n)
    BY <1>2, PlaceNext
  <2>4. CASE n + 1 \in S
    <3>1. /\ list[n + 1] \in Seq(Names) /\ Len(list[n + 1]) = Place(S, n) + 1
          /\ list[n + 1][Place(S, n) + 1] = e[n + 1].name
          /\ \A k \in 1 .. Place(S, n) : list[n + 1][k] = list[n][k]
      BY <1>1, <2>1, <2>2, <2>4, AppendProperties
    <3>2. \A i \in S \cap 1 .. n + 1 : i = n + 1 \/ i \in S \cap 1 .. n
      OBVIOUS
    <3>3. Place(S, n + 1) = Place(S, n) + 1
      BY <2>3, <2>4
    <3>4. ASSUME NEW i \in S \cap 1 .. n + 1
          PROVE  /\ Place(S, i) \in 1 .. Place(S, n + 1)
                 /\ list[n + 1][Place(S, i)] = e[i].name
      <4>1. CASE i = n + 1
        BY <2>3, <3>1, <3>3, <4>1
      <4>2. CASE i \in S \cap 1 .. n
        BY <2>1, <2>3, <3>1, <3>3, <4>2
      <4> QED
        BY <3>2, <4>1, <4>2
    <3> QED
      BY <3>1, <3>3, <3>4
  <2>5. CASE n + 1 \notin S
    <3>1. S \cap 1 .. n + 1 = S \cap 1 .. n
      BY <2>5
    <3> QED
      BY <2>1, <2>2, <2>3, <2>5, <3>1
  <2> QED
    BY <2>4, <2>5
<1>6. Good(m)
  <2>1. Nat \subseteq T
    <3> HIDE DEF T
    <3> QED
      BY <1>4, <1>5, NatSetInduction
  <2> QED
    BY <1>1, <2>1
<1>7. S \cap 1 .. m = S
  BY DEF S, Listed, m
<1> QED
  BY <1>6, <1>7 DEF Lists, Place, Listed, S, list, m

\* As far as keys has come on POSIX: how many entries there were, and those
\* that it has read if nobody wrote.
ReadingTrue(t) ==
    at[t] = "reading" =>
        /\ platform = "posix" /\ arg[t] = "show_hidden" /\ environ \in seen[t]
        /\ Len(keys[t]) <= size[t]
        /\ \E e \in seen[t] : Len(e) = size[t]
        /\ Undisturbed(t) => \A k \in 1 .. Len(keys[t]) :
                                k <= Len(environ) /\ keys[t][k] = environ[k].name

ListedTrue(t) ==
    at[t] = "listed" /\ (platform = "windows" \/ Undisturbed(t)) =>
        \E e \in seen[t] : Lists(keys[t], e, Hidden(arg[t]))

FaultTrue(t) == at[t] = "fault" => \E e \in seen[t] : Len(e) < size[t]

KeysInv ==
    /\ keys \in [Threads -> Seq(Names)]
    /\ \A t \in Threads : ReadingTrue(t) /\ ListedTrue(t) /\ FaultTrue(t)

LEMMA KeysInitially == Init => KeysInv
<1> SUFFICES ASSUME Init PROVE KeysInv
  OBVIOUS
<1>1. at = [t \in Threads |-> "idle"] /\ keys = [t \in Threads |-> <<>>]
  BY DEF Init, EnvInit
<1>2. <<>> \in Seq(Names)
  BY EmptySeq
<1> QED
  BY <1>1, <1>2 DEF KeysInv, ReadingTrue, ListedTrue, FaultTrue

\* All entries read, the list has the names of all of them.
LEMMA ReadAllLists ==
  ASSUME NEW e \in Seq(Variable), NEW names, Len(names) = Len(e),
         \A k \in 1 .. Len(e) : names[k] = e[k].name
  PROVE  Lists(names, e, {})
<1> DEFINE m == Len(e)
           S == {i \in 1 .. m : e[i].name \notin {}}
<1>1. m \in Nat /\ S = 1 .. m
  BY LenProperties
<1> HIDE DEF m, S
<1>2. Cardinality(S) = m
  BY <1>1, FS_Interval
<1>3. \A n \in 0 .. m : Cardinality(S \cap 1 .. n) = n
  BY <1>1, PlaceOfAll DEF Place
<1>4. \A i \in S : names[Cardinality(S \cap 1 .. i)] = e[i].name
  BY <1>1, <1>3 DEF m
<1> QED
  BY <1>2, <1>4 DEF Lists, S, m

\* A step of thread t leaves what the others know, who see what it writes.
LEMMA KeysKept ==
  ASSUME KeysInv, UNCHANGED platform, NEW t \in Threads,
         keys' \in [Threads -> Seq(Names)],
         ReadingTrue(t)', ListedTrue(t)', FaultTrue(t)',
         \A u \in Threads \ {t} :
            /\ at'[u] = at[u] /\ arg'[u] = arg[u]
            /\ size'[u] = size[u] /\ keys'[u] = keys[u]
            /\ at[u] = "listed" => seen'[u] = seen[u]
            /\ at[u] \in {"reading", "fault"} => seen[u] \subseteq seen'[u]
            /\ at[u] = "reading" => environ' \in seen'[u]
  PROVE  KeysInv'
<1> SUFFICES ASSUME NEW u \in Threads, u # t
             PROVE  ReadingTrue(u)' /\ ListedTrue(u)' /\ FaultTrue(u)'
  BY DEF KeysInv
<1>1. ReadingTrue(u) /\ ListedTrue(u) /\ FaultTrue(u)
  BY DEF KeysInv
<1>2. ReadingTrue(u)'
  <2> SUFFICES ASSUME at[u] = "reading" PROVE ReadingTrue(u)'
    BY DEF ReadingTrue
  <2>1. seen[u] \subseteq seen'[u] /\ environ \in seen[u] /\ environ' \in seen'[u]
    BY <1>1 DEF ReadingTrue
  <2>2. Undisturbed(u)' => Undisturbed(u) /\ environ' = environ
    BY <2>1 DEF Undisturbed
  <2> QED
    BY <1>1, <2>1, <2>2 DEF ReadingTrue
<1>3. ListedTrue(u)'
  BY <1>1 DEF ListedTrue, Undisturbed
<1>4. FaultTrue(u)'
  BY <1>1 DEF FaultTrue
<1> QED
  BY <1>2, <1>3, <1>4

\* A call of something else, or a step of one.
LEMMA ElseKeepsKeys ==
  ASSUME GetInv, KeysInv, NEW t \in Threads,
         NEW step \in (EnvPlaces \cup WorkPlaces) \ {"reading", "listed", "fault"},
         \/ \E name, n, v : CallsWith(t, step, name, n, <<>>, v) /\ Reads(t)
         \/ \E from : Goes(t, from, step) /\ UNCHANGED <<size, keys, seen>>
  PROVE  KeysInv'
<1>1. UNCHANGED platform /\ at' = [at EXCEPT ![t] = step]
  BY DEF CallsWith, Goes
<1>2. ReadingTrue(t)' /\ ListedTrue(t)' /\ FaultTrue(t)'
  BY <1>1 DEF GetInv, GetTypeOK, ReadingTrue, ListedTrue, FaultTrue
<1>3. keys' = keys \/ keys' = [keys EXCEPT ![t] = <<>>]
  BY DEF CallsWith
<1>4. keys' \in [Threads -> Seq(Names)] /\ \A u \in Threads \ {t} : keys'[u] = keys[u]
  BY <1>3, EmptySeq DEF KeysInv
<1>5. environ' = environ
  BY DEF Reads, Goes
<1>6. \A u \in Threads \ {t} : /\ at'[u] = at[u] /\ arg'[u] = arg[u] /\ size'[u] = size[u]
                               /\ seen'[u] = seen[u]
  BY <1>1 DEF GetInv, GetTypeOK, CallsWith, Reads, Goes
<1>7. \A u \in Threads : at[u] = "reading" => environ \in seen[u]
  BY DEF KeysInv, ReadingTrue
<1> QED
  BY <1>1, <1>2, <1>4, <1>5, <1>6, <1>7, KeysKept

LEMMA WritesKeepKeys ==
  ASSUME GetInv, KeysInv, NEW t \in Threads, NEW name, NEW e,
         Writes(t, name, e)
  PROVE  KeysInv'
<1>1. CallsWith(t, "idle", "", 0, <<>>, Unset) /\ UNCHANGED platform
  BY DEF Writes, Calls, CallsWith
<1>2. ReadingTrue(t)' /\ ListedTrue(t)' /\ FaultTrue(t)'
  BY <1>1 DEF CallsWith, GetInv, GetTypeOK, ReadingTrue, ListedTrue, FaultTrue
<1>3. keys' \in [Threads -> Seq(Names)] /\ \A u \in Threads \ {t} : keys'[u] = keys[u]
  BY <1>1, EmptySeq DEF CallsWith, KeysInv
<1>4. \A u \in Threads \ {t} :
        /\ at'[u] = at[u] /\ arg'[u] = arg[u] /\ size'[u] = size[u]
        /\ at[u] = "listed" => seen'[u] = seen[u]
        /\ at[u] \in {"reading", "fault"} => seen'[u] = seen[u] \cup {e}
  BY <1>1 DEF GetInv, GetTypeOK, CallsWith, Writes, Ended
<1>5. environ' = e
  BY DEF Writes
<1> QED
  BY <1>1, <1>2, <1>3, <1>4, <1>5, KeysKept

LEMMA CopyListed ==
  ASSUME GetInv, KeysInv, NEW t \in Threads, NEW show \in BOOLEAN, KeysOfCopy(t, show)
  PROVE  KeysInv'
<1> DEFINE list == Listing(environ, show)[Len(environ)]
           name == IF show THEN "show_hidden" ELSE ""
<1>1. environ \in Seq(Variable) /\ list \in Seq(Names) /\ Lists(list, environ, Hidden(name))
  BY ListingLists DEF GetInv, GetTypeOK, Hidden
<1> HIDE DEF list
<1>2. CallsWith(t, "listed", name, 0, list, Unset) /\ Reads(t)
  BY DEF KeysOfCopy, list
<1>3. /\ UNCHANGED <<platform, environ>> /\ at'[t] = "listed" /\ keys'[t] = list
      /\ seen'[t] = {environ} /\ arg'[t] = name
      /\ keys' \in [Threads -> Seq(Names)]
  BY <1>1, <1>2 DEF CallsWith, Reads, GetInv, GetTypeOK, KeysInv
<1>4. \A u \in Threads \ {t} : /\ at'[u] = at[u] /\ arg'[u] = arg[u] /\ size'[u] = size[u]
                               /\ seen'[u] = seen[u] /\ keys'[u] = keys[u]
  BY <1>2 DEF GetInv, GetTypeOK, KeysInv, CallsWith, Reads
<1>5. ReadingTrue(t)' /\ ListedTrue(t)' /\ FaultTrue(t)'
  <2>1. Lists(keys'[t], environ, Hidden(arg'[t]))
    BY <1>1, <1>3
  <2> HIDE DEF name
  <2>2. ListedTrue(t)'
    BY <1>3, <2>1 DEF ListedTrue, Lists, Hidden
  <2> QED
    BY <1>3, <2>2 DEF ReadingTrue, FaultTrue
<1>6. \A u \in Threads : at[u] = "reading" => environ \in seen[u]
  BY DEF KeysInv, ReadingTrue
<1> QED
  BY <1>3, <1>4, <1>5, <1>6, KeysKept

LEMMA CountsKept ==
  ASSUME GetInv, KeysInv, NEW t \in Threads, CountsKeys(t)
  PROVE  KeysInv'
<1>1. CallsWith(t, "reading", "show_hidden", Len(environ), <<>>, Unset) /\ Reads(t)
      /\ platform = "posix"
  BY DEF CountsKeys
<1>2. /\ UNCHANGED <<platform, environ>> /\ at'[t] = "reading" /\ keys'[t] = <<>>
      /\ seen'[t] = {environ} /\ arg'[t] = "show_hidden" /\ size'[t] = Len(environ)
      /\ keys' \in [Threads -> Seq(Names)]
  BY <1>1, EmptySeq DEF CallsWith, Reads, GetInv, GetTypeOK, KeysInv
<1>3. \A u \in Threads \ {t} : /\ at'[u] = at[u] /\ arg'[u] = arg[u] /\ size'[u] = size[u]
                               /\ seen'[u] = seen[u] /\ keys'[u] = keys[u]
  BY <1>1 DEF GetInv, GetTypeOK, KeysInv, CallsWith, Reads
<1>4. Len(keys'[t]) = 0 /\ Len(environ) \in Nat
  BY <1>2, EmptySeq, LenProperties DEF GetInv, GetTypeOK
<1>5. ReadingTrue(t)' /\ ListedTrue(t)' /\ FaultTrue(t)'
  BY <1>1, <1>2, <1>4 DEF ReadingTrue, ListedTrue, FaultTrue
<1>6. \A u \in Threads : at[u] = "reading" => environ \in seen[u]
  BY DEF KeysInv, ReadingTrue
<1> QED
  BY <1>2, <1>3, <1>5, <1>6, KeysKept

\* An entry read, or the last one, or the NULL before it.
LEMMA ReadsKept ==
  ASSUME GetInv, KeysInv, NEW t \in Threads, ReadsKey(t)
  PROVE  KeysInv'
<1> DEFINE i == Len(keys[t]) + 1
<1>1. /\ at[t] = "reading" /\ UNCHANGED <<platform, environ, arg, size, seen>>
      /\ \/ /\ Len(keys[t]) >= size[t] /\ UNCHANGED keys
            /\ at' = [at EXCEPT ![t] = "listed"]
         \/ /\ ~(Len(keys[t]) >= size[t]) /\ i > Len(environ) /\ UNCHANGED keys
            /\ at' = [at EXCEPT ![t] = "fault"]
         \/ /\ ~(Len(keys[t]) >= size[t]) /\ ~(i > Len(environ))
            /\ keys' = [keys EXCEPT ![t] = Append(@, environ[i].name)]
            /\ at' = [at EXCEPT ![t] = "reading"]
  BY DEF ReadsKey, ReadAll, Goes
<1>2. /\ platform = "posix" /\ arg[t] = "show_hidden" /\ environ \in seen[t]
      /\ Len(keys[t]) <= size[t] /\ \E e \in seen[t] : Len(e) = size[t]
      /\ Undisturbed(t) => \A k \in 1 .. Len(keys[t]) :
                              k <= Len(environ) /\ keys[t][k] = environ[k].name
  BY <1>1 DEF KeysInv, ReadingTrue
<1>3. /\ size[t] \in Nat /\ keys[t] \in Seq(Names) /\ Len(keys[t]) \in Nat
      /\ environ \in Seq(Variable) /\ Len(environ) \in Nat
      /\ at[t] = "reading" /\ at' \in [Threads -> EnvPlaces \cup WorkPlaces]
  BY <1>1, LenProperties DEF GetInv, GetTypeOK, KeysInv, EnvPlaces, Ended
<1>4. \A u \in Threads \ {t} : /\ at'[u] = at[u] /\ arg'[u] = arg[u] /\ size'[u] = size[u]
                               /\ seen'[u] = seen[u] /\ keys'[u] = keys[u]
  BY <1>1 DEF GetInv, GetTypeOK, KeysInv
<1>5. \A u \in Threads : at[u] = "reading" => environ \in seen[u]
  BY DEF KeysInv, ReadingTrue
<1> SUFFICES /\ keys' \in [Threads -> Seq(Names)]
             /\ ReadingTrue(t)' /\ ListedTrue(t)' /\ FaultTrue(t)'
  BY <1>1, <1>4, <1>5, KeysKept
<1>6. CASE /\ Len(keys[t]) >= size[t] /\ UNCHANGED keys
           /\ at' = [at EXCEPT ![t] = "listed"]
  <2>1. at'[t] = "listed"
    BY <1>3, <1>6 DEF GetInv, GetTypeOK
  <2>2. Undisturbed(t) => Lists(keys[t], environ, {})
    <3> SUFFICES ASSUME Undisturbed(t) PROVE Lists(keys[t], environ, {})
      OBVIOUS
    <3>1. Len(environ) = size[t] /\ Len(keys[t]) = size[t]
      BY <1>2, <1>3, <1>6 DEF Undisturbed
    <3>2. \A k \in 1 .. Len(environ) : keys[t][k] = environ[k].name
      BY <1>2, <3>1
    <3> QED
      BY <1>3, <3>1, <3>2, ReadAllLists
  <2>3. ListedTrue(t)'
    <3>1. /\ UNCHANGED <<platform, environ, arg, seen, keys>> /\ platform = "posix"
          /\ environ \in seen[t] /\ Hidden(arg[t]) = {}
      BY <1>1, <1>2, <1>6 DEF Hidden
    <3>2. Undisturbed(t)' => Undisturbed(t)
      BY <3>1 DEF Undisturbed
    <3>3. Lists(keys[t], environ, {}) => Lists(keys'[t], environ', Hidden(arg'[t]))
      BY <3>1 DEF Hidden
    <3> QED
      BY <2>2, <3>1, <3>2, <3>3 DEF ListedTrue
  <2> QED
    BY <1>6, <2>1, <2>3 DEF KeysInv, ReadingTrue, FaultTrue
<1>7. CASE /\ ~(Len(keys[t]) >= size[t]) /\ i > Len(environ) /\ UNCHANGED keys
           /\ at' = [at EXCEPT ![t] = "fault"]
  <2>1. at'[t] = "fault"
    BY <1>3, <1>7 DEF GetInv, GetTypeOK
  <2>2. Len(environ) < size[t]
    BY <1>3, <1>7
  <2> QED
    BY <1>1, <1>2, <1>7, <2>1, <2>2 DEF KeysInv, ReadingTrue, ListedTrue, FaultTrue
<1>8. CASE /\ ~(Len(keys[t]) >= size[t]) /\ ~(i > Len(environ))
           /\ keys' = [keys EXCEPT ![t] = Append(@, environ[i].name)]
           /\ at' = [at EXCEPT ![t] = "reading"]
  <2> DEFINE name == environ[i].name
  <2>1. i \in 1 .. Len(environ) /\ name \in Names
    <3>1. i \in 1 .. Len(environ)
      BY <1>3, <1>8
    <3>2. environ[i] \in Variable
      BY <1>3, <3>1, ElementOfSeq
    <3> QED
      BY <3>1, <3>2 DEF Variable
  <2>2. /\ keys'[t] = Append(keys[t], name) /\ keys' \in [Threads -> Seq(Names)]
        /\ at'[t] = "reading"
    BY <1>3, <1>8, <2>1, AppendProperties DEF KeysInv, GetInv, GetTypeOK
  <2>3. /\ Len(keys'[t]) = i /\ keys'[t][i] = name
        /\ \A k \in 1 .. Len(keys[t]) : keys'[t][k] = keys[t][k]
    <3> HIDE DEF name
    <3> QED
      BY <1>3, <2>1, <2>2, AppendProperties
  <2>4. Undisturbed(t) => \A k \in 1 .. i : k <= Len(environ) /\ keys'[t][k] = environ[k].name
    <3> SUFFICES ASSUME Undisturbed(t), NEW k \in 1 .. i
                 PROVE  k <= Len(environ) /\ keys'[t][k] = environ[k].name
      OBVIOUS
    <3>1. CASE k = i
      BY <1>3, <2>1, <2>3, <3>1
    <3>2. CASE k # i
      <4>1. k \in 1 .. Len(keys[t])
        BY <1>3, <3>2
      <4> QED
        BY <1>2, <2>3, <4>1
    <3> QED
      BY <3>1, <3>2
  <2>5. i <= size[t]
    BY <1>3, <1>8
  <2>6. ReadingTrue(t)'
    <3>1. UNCHANGED <<platform, environ, arg, size, seen>>
      BY <1>1
    <3>2. Undisturbed(t)' => Undisturbed(t)
      BY <3>1 DEF Undisturbed
    <3> QED
      BY <1>2, <2>3, <2>4, <2>5, <3>1, <3>2 DEF ReadingTrue
  <2> QED
    BY <2>2, <2>6 DEF ListedTrue, FaultTrue
<1> QED
  BY <1>1, <1>6, <1>7, <1>8

LEMMA KeysInvStep == GetInv /\ KeysInv /\ [Next]_vars => KeysInv'
<1> SUFFICES ASSUME GetInv, KeysInv, [Next]_vars
             PROVE  KeysInv'
  OBVIOUS
<1>1. CASE UNCHANGED envVars
  BY <1>1 DEF envVars, KeysInv, ReadingTrue, ListedTrue, FaultTrue, Undisturbed
<1>2. ASSUME NEW t \in Threads, EnvStep(t)
      PROVE  KeysInv'
  <2>1. CASE Raises(t)
    <3>1. CallsWith(t, "raised", "", 0, <<>>, Unset) /\ Reads(t)
      BY <2>1 DEF Raises, Calls
    <3>2. "raised" \in (EnvPlaces \cup WorkPlaces) \ {"reading", "listed", "fault"}
      BY DEF EnvPlaces, Ended
    <3> QED
      BY <3>1, <3>2, ElseKeepsKeys
  <2>2. ASSUME NEW name \in Names, NEW v \in Values, lenv_set(t, name, v)
        PROVE  KeysInv'
    BY <2>2, WritesKeepKeys DEF lenv_set
  <2>3. ASSUME NEW name \in Names, lenv_unset(t, name)
        PROVE  KeysInv'
    BY <2>3, WritesKeepKeys DEF lenv_unset
  <2>4. ASSUME NEW name \in Names, lenv_get(t, name)
        PROVE  KeysInv'
    <3>1. /\ \E step \in {"pointed", "sized", "got"} :
               \E n, v : CallsWith(t, step, name, n, <<>>, v)
          /\ Reads(t)
      BY <2>4 DEF lenv_get
    <3> QED
      BY <3>1, ElseKeepsKeys DEF EnvPlaces, Ended
  <2>5. ASSUME NEW show \in BOOLEAN, KeysOfCopy(t, show)
        PROVE  KeysInv'
    BY <2>5, CopyListed
  <2>6. CASE GetsValue(t)
    <3>1. /\ \E to \in {"got", "raised"} : Goes(t, "sized", to)
          /\ UNCHANGED <<size, keys, seen>>
      BY <2>6 DEF GetsValue
    <3> QED
      BY <3>1, ElseKeepsKeys DEF EnvPlaces, Ended
  <2>7. CASE CountsKeys(t)
    BY <2>7, CountsKept
  <2>8. CASE ReadsKey(t)
    BY <2>8, ReadsKept
  <2>9. CASE CopiesValue(t)
    <3>1. /\ \E to \in {"got", "raised"} : Goes(t, "pointed", to)
          /\ UNCHANGED <<size, keys, seen>>
      BY <2>9 DEF CopiesValue
    <3> QED
      BY <3>1, ElseKeepsKeys DEF EnvPlaces, Ended
  <2> QED
    BY <1>2, <2>1, <2>2, <2>3, <2>4, <2>5, <2>6, <2>7, <2>8, <2>9 DEF EnvStep
<1>3. ASSUME NEW t \in Threads, ActionStep(t)
      PROVE  KeysInv'
  <2>1. CASE Loads(t)
    BY <1>1, <2>1 DEF Loads
  <2>2. CASE ActionElsewhere(t)
    BY <2>2, ElseKeepsKeys DEF ActionElsewhere, Calls, EnvPlaces, Ended
  <2>3. CASE MakesDir(t)
    <3>1. CallsWith(t, "open", "", 0, <<>>, Unset) /\ Reads(t)
      BY <2>3 DEF MakesDir, Calls
    <3> QED
      BY <3>1, ElseKeepsKeys DEF WorkPlaces, EnvPlaces, Ended
  <2>4. ASSUME NEW from, NEW to \in WorkPlaces \cup {"raised", "idle"}, Does(t, from, to)
        PROVE  KeysInv'
    <3>1. to \in (EnvPlaces \cup WorkPlaces) \ {"reading", "listed", "fault"}
      BY DEF WorkPlaces, EnvPlaces, Ended
    <3> QED
      BY <2>4, <3>1, ElseKeepsKeys DEF Does
  <2>5. CASE Opens(t)
    BY <2>4, <2>5 DEF Opens, Leaves, WorkPlaces
  <2>6. CASE WritesFile(t)
    BY <2>4, <2>6 DEF WritesFile, WorkPlaces
  <2>7. CASE RunsAction(t)
    BY <2>4, <2>7 DEF RunsAction, AfterAction, WorkPlaces
  <2>8. CASE Unlinks(t)
    BY <2>4, <2>8 DEF Unlinks, WorkPlaces
  <2>9. CASE RemovesDir(t)
    BY <2>4, <2>9 DEF RemovesDir, Leaves
  <2> QED
    BY <1>3, <2>1, <2>2, <2>3, <2>5, <2>6, <2>7, <2>8, <2>9 DEF ActionStep
<1> QED
  BY <1>1, <1>2, <1>3 DEF Next, vars

\* keys lists what was there, in order, and reads past the end of environ only
\* if another thread took a variable away meanwhile (lenv.c:26-90).
THEOREM KeysReturnsTrue == Spec => []KeysTrue
<1>1. KeysInv => KeysTrue
  BY DEF KeysInv, ListedTrue, FaultTrue, KeysTrue
<1> QED
  BY <1>1, GetInitially, GetInvStep, KeysInitially, KeysInvStep, PTL DEF Spec
=============================================================================
