------------------------ MODULE SelfManaged_proofs ------------------------
(***************************************************************************)
(* Proofs of the safety properties of merges and loops, for every set of   *)
(* runs and sources and every limit, although hooks and passes write what  *)
(* they read before: a loop keeps to its limits of sessions and of rounds, *)
(* a merge collects its inputs, and no session is decided twice.  For the  *)
(* sessions and their outcomes nothing is needed of the queue but that one *)
(* pass at a time takes an item from it; rounds and inputs need to know    *)
(* which items are in it.                                                  *)
(***************************************************************************)
EXTENDS SelfManaged, Queues_proofs

RowTypes ==
    /\ edges \subseteq Sources
    /\ session \in [Runs -> Sessions]
    /\ hook \in [Hooks -> [Runs -> Sessions]]
    /\ out \in [Runs -> Seq(Outcomes)]
    /\ pass.on => \A r \in Runs : pass.item.run = r => pass.seen \in Sessions

(* What passes and hooks have read still tells whether there is a session. *)
ReadInv ==
    /\ pass.on => \A r \in Runs : pass.item.run = r =>
          (pass.seen.state = "none" <=> session[r].state = "none")
    /\ \A h \in Hooks, r \in Runs : hook[h][r] # NoRead =>
          hook[h][r].state \in OpenStates /\ session[r].state # "none"

(* Only a finished session has an outcome, and a timeout that runs has none before it. *)
OutInv ==
    \A r \in Runs :
        /\ session[r].state # "finished" => out[r] = <<>>
        /\ hook["timeout"][r] # NoRead =>
              out[r] = <<>> \/ (Len(out[r]) = 1 /\ out[r][1] # "timeout")

SessionInv == RowTypes /\ ReadInv /\ OutInv /\ SessionsWithinLimit /\ DecidedOnce

-----------------------------------------------------------------------------
(* What a step may do to the session of a run. *)

Stays(r)    == session'[r].state = session[r].state /\ out'[r] = out[r]
Moves(r)    == session[r].state \in Active /\ session'[r].state \in Active /\ out'[r] = out[r]
Opens(r)    == /\ session[r].state = "none" /\ session'[r].state \in Active
               /\ out'[r] = out[r] /\ ~pass'.on
Decides(r)  == /\ session[r].state \notin {"finished", "cancelling"}
               /\ session[r].state = "none" => ~pass'.on
               /\ session'[r].state = "finished"
               /\ \E o \in Outcomes : /\ out'[r] = Append(out[r], o)
                                      /\ o = "timeout" => hook'["timeout"][r] = NoRead
TimesOut(r) == /\ kind = "merge" /\ hook["timeout"][r] # NoRead
               /\ hook'["timeout"][r] = NoRead
               /\ session'[r].state = "finished" /\ out'[r] = Append(out[r], "timeout")
Ends(r)     == /\ session[r].state = "cancelling" /\ session'[r].state = "finished"
               /\ out'[r] = out[r]
Reopens(r)  == /\ kind = "merge" /\ hook["timeout"][r] # NoRead
               /\ session[r].state = "finished" /\ out[r] = <<>>
               /\ session'[r].state \in Active /\ out'[r] = out[r]

SessionStep(r) ==
    Stays(r) \/ Moves(r) \/ Opens(r) \/ Decides(r) \/ TimesOut(r) \/ Ends(r) \/ Reopens(r)

(* What a step may do to what has been read. *)
HookStep ==
    \A h \in Hooks, r \in Runs :
        \/ hook'[h][r] = hook[h][r]
        \/ hook'[h][r] = NoRead
        \/ /\ hook'[h][r] = session[r] /\ session[r].state \in OpenStates
           /\ session' = session /\ out' = out

PassStep ==
    \/ pass' = pass
    \/ pass' = NoPass
    \/ session' = session /\ \A r \in Runs : pass'.item.run = r => pass'.seen = session[r]

(* A loop opens a session only below its limit. *)
LimitStep ==
    kind' = "loop" =>
        \/ \A r \in Runs : session'[r].state \in Active => session[r].state \in Active
        \/ /\ ~SessionsAtLimit
           /\ \E x : \A r \in Runs :
                session'[r].state \in Active => session[r].state \in Active \/ r = x

-----------------------------------------------------------------------------
\* NoPass is off, and NoRead is no session that anybody acts on.
LEMMA Constants == ~NoPass.on /\ NoRead \in Sessions /\ NoRead.state = "none"
  BY SelfManagedAssumption DEF NoPass, NoRead, NoSession, Sessions

\* Every step of these kinds keeps what was read true.
LEMMA KeepRead ==
    ASSUME RowTypes, ReadInv, kind' = kind,
           \A r \in Runs : SessionStep(r), HookStep, PassStep
    PROVE  ReadInv'
<1>1. ASSUME NEW r \in Runs
      PROVE  /\ session[r].state # "none" => session'[r].state # "none"
             /\ pass'.on => (session'[r].state = "none" <=> session[r].state = "none")
  <2>1. \/ session'[r].state = session[r].state
        \/ session[r].state # "none" /\ session'[r].state # "none"
        \/ session[r].state = "none" /\ session'[r].state # "none" /\ ~pass'.on
        \/ hook["timeout"][r] # NoRead /\ session'[r].state # "none"
    <3>1. CASE Stays(r) \/ Moves(r) \/ Ends(r) \/ Reopens(r)
      BY <3>1 DEF Stays, Moves, Ends, Reopens, Active, OpenStates
    <3>2. CASE Opens(r)
      BY <3>2 DEF Opens, Active, OpenStates
    <3>3. CASE Decides(r)
      BY <3>3 DEF Decides
    <3>4. CASE TimesOut(r)
      BY <3>4 DEF TimesOut
    <3> QED  BY <3>1, <3>2, <3>3, <3>4 DEF SessionStep
  <2>2. hook["timeout"][r] # NoRead => session[r].state # "none"
    BY DEF ReadInv, Hooks
  <2> QED  BY <2>1, <2>2
<1>2. ASSUME pass'.on, NEW r \in Runs, pass'.item.run = r
      PROVE  pass'.seen.state = "none" <=> session'[r].state = "none"
  <2>1. CASE pass' = pass
    BY <1>1, <1>2, <2>1 DEF ReadInv
  <2>2. CASE pass' = NoPass
    BY <1>2, <2>2, Constants
  <2>3. CASE session' = session /\ pass'.seen = session[r]
    BY <2>3
  <2> QED  BY <1>2, <2>1, <2>2, <2>3 DEF PassStep
<1>3. ASSUME NEW h \in Hooks, NEW r \in Runs, hook'[h][r] # NoRead
      PROVE  hook'[h][r].state \in OpenStates /\ session'[r].state # "none"
  <2>1. CASE hook'[h][r] = hook[h][r]
    BY <1>1, <1>3, <2>1 DEF ReadInv
  <2>2. CASE hook'[h][r] = session[r] /\ session[r].state \in OpenStates
    BY <1>1, <2>2 DEF OpenStates
  <2> QED  BY <1>3, <2>1, <2>2 DEF HookStep
<1> QED  BY <1>2, <1>3 DEF ReadInv

\* Outcomes: what is appended to an empty list, or after the list of a timeout that ran.
LEMMA KeepOut ==
    ASSUME RowTypes, ReadInv, OutInv, DecidedOnce, kind' = kind,
           \A r \in Runs : SessionStep(r), HookStep
    PROVE  OutInv' /\ DecidedOnce'
<1>0. "timeout" \in Hooks
  BY DEF Hooks
<1>1. ASSUME NEW r \in Runs
      PROVE  /\ session'[r].state # "finished" => out'[r] = <<>>
             /\ hook'["timeout"][r] # NoRead =>
                   out'[r] = <<>> \/ (Len(out'[r]) = 1 /\ out'[r][1] # "timeout")
             /\ \/ Len(out'[r]) <= 1
                \/ kind' = "merge" /\ Len(out'[r]) = 2
                   /\ out'[r][1] # "timeout" /\ out'[r][2] = "timeout"
  <2>1. out[r] \in Seq(Outcomes)
    BY DEF RowTypes
  <2>2. /\ session[r].state # "finished" => out[r] = <<>>
        /\ hook["timeout"][r] # NoRead =>
              out[r] = <<>> \/ (Len(out[r]) = 1 /\ out[r][1] # "timeout")
        /\ \/ Len(out[r]) <= 1
           \/ kind = "merge" /\ Len(out[r]) = 2 /\ out[r][1] # "timeout" /\ out[r][2] = "timeout"
    BY DEF OutInv, DecidedOnce
  <2>3. hook'["timeout"][r] = hook["timeout"][r] \/ hook'["timeout"][r] = NoRead
        \/ (session[r].state \in OpenStates /\ session' = session /\ out' = out)
    BY <1>0 DEF HookStep
  <2>4. CASE out'[r] = out[r] /\ (session'[r].state # "finished" => out[r] = <<>>)
    <3>1. hook'["timeout"][r] # NoRead =>
             out[r] = <<>> \/ (Len(out[r]) = 1 /\ out[r][1] # "timeout")
      BY <2>2, <2>3 DEF OpenStates
    <3> QED  BY <2>2, <2>4, <3>1
  <2>5. CASE Decides(r)
    <3>1. out[r] = <<>>
      BY <2>2, <2>5 DEF Decides
    <3>2. PICK o \in Outcomes : /\ out'[r] = Append(out[r], o)
                                /\ o = "timeout" => hook'["timeout"][r] = NoRead
      BY <2>5 DEF Decides
    <3>3. Len(out'[r]) = 1 /\ out'[r][1] = o
      BY <3>1, <3>2
    <3> QED  BY <2>5, <3>2, <3>3 DEF Decides
  <2>6. CASE TimesOut(r)
    <3>1. out[r] = <<>> \/ (Len(out[r]) = 1 /\ out[r][1] # "timeout")
      BY <2>2, <2>6 DEF TimesOut
    <3>2. out'[r] = Append(out[r], "timeout")
      BY <2>6 DEF TimesOut
    <3>3. CASE out[r] = <<>>
      <4>1. Len(out'[r]) = 1
        BY <3>2, <3>3
      <4> QED  BY <2>6, <4>1 DEF TimesOut
    <3>4. CASE Len(out[r]) = 1 /\ out[r][1] # "timeout"
      <4>1. Len(out'[r]) = 2 /\ out'[r][1] # "timeout" /\ out'[r][2] = "timeout"
        BY <2>1, <3>2, <3>4
      <4> QED  BY <2>6, <4>1 DEF TimesOut
    <3> QED  BY <3>1, <3>3, <3>4
  <2>7. Stays(r) \/ Moves(r) \/ Opens(r) \/ Ends(r) \/ Reopens(r) =>
           out'[r] = out[r] /\ (session'[r].state # "finished" => out[r] = <<>>)
    BY <2>2 DEF Stays, Moves, Opens, Ends, Reopens, Active, OpenStates
  <2> QED  BY <2>4, <2>5, <2>6, <2>7 DEF SessionStep
<1> QED  BY <1>1 DEF OutInv, DecidedOnce

\* The sessions of a loop stay within its limit.
LEMMA KeepLimit ==
    ASSUME SessionsWithinLimit, kind' = kind, LimitStep
    PROVE  SessionsWithinLimit'
<1> DEFINE A == {r \in Runs : session[r].state \in Active}
           B == {r \in Runs : session'[r].state \in Active}
<1>1. SUFFICES ASSUME kind = "loop" PROVE Cardinality(B) <= MaxSessions
  BY DEF SessionsWithinLimit
<1>2. IsFiniteSet(A) /\ IsFiniteSet(B) /\ Cardinality(A) \in Nat /\ Cardinality(B) \in Nat
  <2>1. A \in SUBSET Runs /\ B \in SUBSET Runs
    OBVIOUS
  <2> QED  BY <2>1, SelfManagedAssumption, FS_Subset, FS_CardinalityType
<1>3. MaxSessions \in Nat
  BY SelfManagedAssumption
<1>4. CASE \A r \in Runs : session'[r].state \in Active => session[r].state \in Active
  <2>1. B \in SUBSET A
    BY <1>4
  <2>2. Cardinality(B) <= Cardinality(A)
    BY <1>2, <2>1, FS_Subset
  <2>3. Cardinality(A) <= MaxSessions
    BY <1>1 DEF SessionsWithinLimit
  <2> QED  BY <1>2, <1>3, <2>2, <2>3
<1>5. CASE /\ ~SessionsAtLimit
           /\ \E x : \A r \in Runs :
                session'[r].state \in Active => session[r].state \in Active \/ r = x
  <2>1. PICK x : \A r \in Runs :
                session'[r].state \in Active => session[r].state \in Active \/ r = x
    BY <1>5
  <2>2. ~(Cardinality(A) >= MaxSessions)
    BY <1>5 DEF SessionsAtLimit
  <2>3. B \in SUBSET (A \cup {x})
    BY <2>1
  <2>4. IsFiniteSet(A \cup {x}) /\ Cardinality(A \cup {x}) <= Cardinality(A) + 1
    BY <1>2, FS_AddElement
  <2>5. Cardinality(B) <= Cardinality(A \cup {x}) /\ Cardinality(A \cup {x}) \in Nat
    BY <2>3, <2>4, FS_Subset, FS_CardinalityType
  <2> QED  BY <1>2, <1>3, <2>2, <2>4, <2>5
<1> QED  BY <1>1, <1>4, <1>5 DEF LimitStep

-----------------------------------------------------------------------------
(* What the writes of the actions are. *)

StepKinds ==
    /\ kind' = kind /\ \A r \in Runs : SessionStep(r)
    /\ HookStep /\ PassStep /\ LimitStep

\* A row with another state.
LEMMA SetState ==
    ASSUME NEW x \in Sessions, NEW s \in Active \cup {"none", "finished"}
    PROVE  [x EXCEPT !.state = s] \in Sessions /\ [x EXCEPT !.state = s].state = s
  BY DEF Sessions

\* Metadata.Set leaves the state alone.
LEMMA WrittenRows ==
    ASSUME RowTypes, NEW r, NEW md, r \in Runs => md \in Sessions
    PROVE  /\ Written(r, md) \in [Runs -> Sessions]
           /\ \A q \in Runs : Written(r, md)[q].state =
                 IF q = r /\ session[q].state = "none" THEN "pending" ELSE session[q].state
<1> DEFINE s == IF session[r].state = "none" THEN "pending" ELSE session[r].state
           x == [md EXCEPT !.state = s]
<1>1. Written(r, md) = [session EXCEPT ![r] = x]
  BY DEF Written
<1>2. r \in Runs => x \in Sessions /\ x.state = s
  <2>1. SUFFICES ASSUME r \in Runs PROVE x \in Sessions /\ x.state = s
    OBVIOUS
  <2>2. session[r].state \in Active \cup {"none", "finished"}
    BY <2>1 DEF RowTypes, Sessions
  <2>3. s \in Active \cup {"none", "finished"}
    BY <2>2 DEF Active, OpenStates
  <2>4. md \in Sessions
    BY <2>1
  <2> HIDE DEF s
  <2> QED  BY <2>3, <2>4, SetState
<1>3. session \in [Runs -> Sessions]
  BY DEF RowTypes
<1>4. ASSUME NEW q \in Runs
      PROVE Written(r, md)[q] = IF q = r THEN x ELSE session[q]
  <2> HIDE DEF x
  <2> QED  BY <1>1, <1>3
<1>5. Written(r, md) \in [Runs -> Sessions]
  <2> HIDE DEF x
  <2> QED  BY <1>1, <1>2, <1>3
<1> QED  BY <1>2, <1>4, <1>5

\* A step that leaves outcomes alone and writes metadata.
LEMMA KeepOpenRows ==
    ASSUME RowTypes, NEW r, NEW md, r \in Runs => md \in Sessions, KeepOpen(r, md)
    PROVE  /\ session' \in [Runs -> Sessions] /\ out' = out
           /\ \A q \in Runs : session'[q].state =
                 IF q = r /\ session[q].state = "none" THEN "pending" ELSE session[q].state
<1>1. session' = Written(r, md) /\ out' = out
  BY DEF KeepOpen
<1> QED  BY <1>1, WrittenRows

\* Pass and Fail decide a session that is neither finished nor cancelling.
Finishes(r, o) ==
    \A q \in Runs :
        \/ session'[q].state = session[q].state /\ out'[q] = out[q]
        \/ /\ q = r /\ session[q].state \notin {"finished", "cancelling"}
           /\ session'[q].state = "finished" /\ out'[q] = Append(out[q], o)

\* What Finish writes: the session is over, and it has one more outcome.
LEMMA FinishRows ==
    ASSUME RowTypes, NEW r, NEW md, r \in Runs => md \in Sessions,
           NEW o \in Outcomes, Finish(r, md, o)
    PROVE  /\ session' \in [Runs -> Sessions] /\ out' \in [Runs -> Seq(Outcomes)]
           /\ Finishes(r, o)
<1>1. session \in [Runs -> Sessions] /\ out \in [Runs -> Seq(Outcomes)]
  BY DEF RowTypes
<1>2. CASE session[r].state \in {"finished", "cancelling"}
  <2>1. session' = Written(r, md) /\ out' = out
    BY <1>2 DEF Finish, KeepOpen
  <2>2. \A q \in Runs : session'[q].state = session[q].state
    BY <1>2, <2>1, WrittenRows
  <2>3. session' \in [Runs -> Sessions]
    BY <2>1, WrittenRows
  <2> QED  BY <1>1, <2>1, <2>2, <2>3 DEF Finishes
<1>3. CASE session[r].state \notin {"finished", "cancelling"}
  <2> DEFINE x == [md EXCEPT !.state = "finished"]
  <2>1. session' = [session EXCEPT ![r] = x] /\ out' = [out EXCEPT ![r] = Append(@, o)]
    BY <1>3 DEF Finish
  <2>2. r \in Runs => x \in Sessions /\ x.state = "finished"
    BY SetState
  <2> HIDE DEF x
  <2>3. session' \in [Runs -> Sessions]
    BY <1>1, <2>1, <2>2
  <2>4. r \in Runs => Append(out[r], o) \in Seq(Outcomes)
    BY <1>1
  <2>5. out' \in [Runs -> Seq(Outcomes)]
    BY <1>1, <2>1, <2>4
  <2>6. ASSUME NEW q \in Runs
        PROVE  \/ session'[q].state = session[q].state /\ out'[q] = out[q]
               \/ /\ q = r /\ session[q].state \notin {"finished", "cancelling"}
                  /\ session'[q].state = "finished" /\ out'[q] = Append(out[q], o)
    BY <1>1, <1>3, <2>1, <2>2
  <2> QED  BY <2>3, <2>5, <2>6 DEF Finishes
<1> QED  BY <1>2, <1>3

\* A pass that decides a session, or opens or keeps one below the limit.
LEMMA PassDecides ==
    ASSUME NEW r, NEW o \in Outcomes \ {"timeout"}, Finishes(r, o),
           kind' = kind, hook' = hook, pass' = NoPass
    PROVE  StepKinds
<1>1. ~pass'.on
  BY Constants
<1>2. ASSUME NEW q \in Runs PROVE SessionStep(q)
  BY <1>1 DEF Finishes, SessionStep, Stays, Decides
<1>3. \A q \in Runs : session'[q].state \in Active => session[q].state \in Active
  BY DEF Finishes, Active, OpenStates
<1> QED  BY <1>2, <1>3 DEF StepKinds, HookStep, PassStep, LimitStep

\* A pass that at most opens a session below the limit is a step of the known kinds.
LEMMA PassKeeps ==
    ASSUME NEW r, kind' = kind, hook' = hook, pass' = NoPass, out' = out,
           \A q \in Runs : \/ session'[q].state = session[q].state
                           \/ /\ q = r /\ session[q].state = "none" /\ session'[q].state \in Active
                              /\ kind = "merge" \/ ~SessionsAtLimit
    PROVE  StepKinds
<1>1. ~pass'.on
  BY Constants
<1>2. ASSUME NEW q \in Runs PROVE SessionStep(q)
  BY <1>1 DEF SessionStep, Stays, Opens
<1>3. LimitStep
  <2>1. CASE \A q \in Runs : session'[q].state = session[q].state
    BY <2>1 DEF LimitStep
  <2>2. CASE kind = "merge" \/ ~SessionsAtLimit
    BY <2>2 DEF LimitStep
  <2> QED  BY <2>1, <2>2
<1> QED  BY <1>2, <1>3 DEF StepKinds, HookStep, PassStep

\* Steps beside the pass that move a session from one open state to another, or end it.
LEMMA BesidePass ==
    ASSUME kind' = kind, pass' = pass, HookStep,
           \A q \in Runs : Stays(q) \/ Moves(q) \/ Ends(q)
    PROVE  StepKinds
<1>1. \A q \in Runs : SessionStep(q)
  BY DEF SessionStep
<1>2. \A q \in Runs : session'[q].state \in Active => session[q].state \in Active
  BY DEF Stays, Moves, Ends, Active, OpenStates
<1> QED  BY <1>1, <1>2 DEF StepKinds, PassStep, LimitStep

\* A state written into the row of a run.
LEMMA StateRows ==
    ASSUME RowTypes, NEW r \in Runs, NEW s \in Active \cup {"none", "finished"},
           session' = [session EXCEPT ![r].state = s]
    PROVE  /\ session' \in [Runs -> Sessions]
           /\ \A q \in Runs : session'[q].state = IF q = r THEN s ELSE session[q].state
<1> DEFINE x == [session[r] EXCEPT !.state = s]
<1>1. session \in [Runs -> Sessions]
  BY DEF RowTypes
<1>2. x \in Sessions /\ x.state = s
  BY <1>1, SetState
<1>3. session' = [session EXCEPT ![r] = x]
  OBVIOUS
<1> HIDE DEF x
<1> QED  BY <1>1, <1>2, <1>3

\* A hook that ends or a hook that reads.
LEMMA HookRows ==
    ASSUME RowTypes, NEW h \in Hooks, NEW r \in Runs, NEW x \in Sessions,
           hook' = [hook EXCEPT ![h][r] = x]
    PROVE  /\ hook' \in [Hooks -> [Runs -> Sessions]]
           /\ hook'[h][r] = x
           /\ \A g \in Hooks, q \in Runs :
                 ~(g = h /\ q = r) => hook'[g][q] = hook[g][q]
<1>1. hook \in [Hooks -> [Runs -> Sessions]]
  BY DEF RowTypes
<1>2. [hook[h] EXCEPT ![r] = x] \in [Runs -> Sessions]
  BY <1>1
<1>3. hook' = [hook EXCEPT ![h] = [hook[h] EXCEPT ![r] = x]]
  OBVIOUS
<1> QED  BY <1>1, <1>2, <1>3

\* What a hook that is done leaves behind, row by row.
LEMMA HookDoneRows ==
    ASSUME RowTypes, NEW h \in Hooks, NEW r \in Runs, HookDone(h, r)
    PROVE  /\ hook' \in [Hooks -> [Runs -> Sessions]]
           /\ hook'[h][r] = NoRead
           /\ HookStep
<1>1. hook' = [hook EXCEPT ![h][r] = NoRead]
  BY DEF HookDone
<1>2. NoRead \in Sessions
  BY Constants
<1>3. /\ hook' \in [Hooks -> [Runs -> Sessions]]
      /\ hook'[h][r] = NoRead
      /\ \A g \in Hooks, q \in Runs : ~(g = h /\ q = r) => hook'[g][q] = hook[g][q]
  BY <1>1, <1>2, HookRows, Zenon
<1> QED  BY <1>3 DEF HookStep

\* A hook saves the row that it read over a session that is not finished.
LEMMA SaveRows ==
    ASSUME RowTypes, ReadInv, NEW h \in Hooks, NEW r \in Runs,
           hook[h][r] # NoRead, session' = [session EXCEPT ![r] = hook[h][r]]
    PROVE  /\ session' \in [Runs -> Sessions]
           /\ session'[r].state \in OpenStates
           /\ \A q \in Runs : q # r => session'[q] = session[q]
<1>1. session \in [Runs -> Sessions] /\ hook[h][r] \in Sessions
  BY DEF RowTypes
<1>2. hook[h][r].state \in OpenStates
  BY DEF ReadInv
<1> QED  BY <1>1, <1>2

-----------------------------------------------------------------------------
(* The actions. *)

\* The types of a pass that is over.
LEMMA PassOver ==
    ASSUME RowTypes, edges' = edges, hook' = hook, pass' = NoPass,
           session' \in [Runs -> Sessions], out' \in [Runs -> Seq(Outcomes)]
    PROVE  RowTypes'
  BY Constants DEF RowTypes

\* A pass that passes or fails its session.
LEMMA PassFinishes ==
    ASSUME RowTypes, NEW r, NEW md, r \in Runs => md \in Sessions,
           NEW o \in Outcomes \ {"timeout"}, Finish(r, md, o),
           kind' = kind, edges' = edges, hook' = hook, pass' = NoPass
    PROVE  RowTypes' /\ StepKinds
<1>0. o \in Outcomes
  OBVIOUS
<1>1. /\ session' \in [Runs -> Sessions] /\ out' \in [Runs -> Seq(Outcomes)]
      /\ Finishes(r, o)
  BY ONLY RowTypes, r \in Runs => md \in Sessions, Finish(r, md, o), <1>0, FinishRows
<1>2. RowTypes'
  BY <1>1, PassOver
<1>3. StepKinds
  BY <1>1, PassDecides
<1> QED  BY <1>2, <1>3

\* A pass that writes the metadata of a session, or creates a merge's.
LEMMA PassWrites ==
    ASSUME RowTypes, NEW r, NEW md, r \in Runs => md \in Sessions,
           session' = Written(r, md), out' = out,
           kind = "merge" \/ (r \in Runs => session[r].state # "none"),
           kind' = kind, edges' = edges, hook' = hook, pass' = NoPass
    PROVE  RowTypes' /\ StepKinds
<1>1. /\ session' \in [Runs -> Sessions]
      /\ \A q \in Runs : session'[q].state =
            IF q = r /\ session[q].state = "none" THEN "pending" ELSE session[q].state
  BY WrittenRows
<1>2. RowTypes'
  <2>1. out' \in [Runs -> Seq(Outcomes)]
    BY DEF RowTypes
  <2> QED  BY <1>1, <2>1, PassOver
<1>3. \A q \in Runs : \/ session'[q].state = session[q].state
                      \/ /\ q = r /\ session[q].state = "none" /\ session'[q].state \in Active
                         /\ kind = "merge" \/ ~SessionsAtLimit
  BY <1>1 DEF Active, OpenStates
<1>4. StepKinds
  BY <1>3, PassKeeps
<1> QED  BY <1>2, <1>4

\* ReadItem keeps the invariant.
LEMMA StepReadItem ==
    ASSUME RowTypes, ReadInv, ReadItem PROVE RowTypes' /\ StepKinds
<1>1. /\ UNCHANGED <<kind, edges, session, hook, out>>
      /\ pass' = [on |-> TRUE, item |-> Head(queue), seen |-> session[Head(queue).run],
                  live |-> run[Head(queue).run] = "started"]
  BY DEF ReadItem, nodeVars
<1>2. \A r \in Runs : pass'.item.run = r => pass'.seen = session[r]
  BY <1>1
<1>3. RowTypes'
  BY <1>1, <1>2 DEF RowTypes
<1>4. StepKinds
  BY <1>1, <1>2 DEF StepKinds, SessionStep, Stays, HookStep, PassStep, LimitStep
<1> QED  BY <1>3, <1>4

\* So do the passes that put an item back or drop it.
LEMMA StepPutBack ==
    ASSUME RowTypes, ReadInv, SkipItem \/ DeferItem PROVE RowTypes' /\ StepKinds
<1>1. UNCHANGED <<kind, edges, session, hook, out>> /\ pass' = NoPass
  BY DEF SkipItem, DeferItem, nodeVars
<1>2. session \in [Runs -> Sessions] /\ out \in [Runs -> Seq(Outcomes)]
  BY DEF RowTypes
<1>3. RowTypes'
  BY <1>1, <1>2, PassOver
<1>4. StepKinds
  BY <1>1 DEF StepKinds, SessionStep, Stays, HookStep, PassStep, LimitStep
<1> QED  BY <1>3, <1>4

\* A pass that merges an input opens, moves or decides a session.
LEMMA StepMergeItem ==
    ASSUME RowTypes, ReadInv, MergeItem PROVE RowTypes' /\ StepKinds
<1> DEFINE r  == pass.item.run
           md == UpdateSource(FoundOrCreated, pass.item.source)
           st == [md EXCEPT !.stopped = TRUE]
<1>1. /\ kind = "merge" /\ pass.on
      /\ kind' = kind /\ edges' = edges /\ hook' = hook /\ pass' = NoPass
  BY DEF MergeItem, Takes, nodeVars
<1>2. r \in Runs => md \in Sessions /\ st \in Sessions
  <2>1. SUFFICES ASSUME r \in Runs PROVE md \in Sessions /\ st \in Sessions
    OBVIOUS
  <2>2. pass.seen \in Sessions
    BY <1>1, <2>1 DEF RowTypes
  <2>3. edges \subseteq Sources
    BY DEF RowTypes
  <2>4. [NoSession EXCEPT !.need = edges] \in Sessions
    <3>1. NoSession \in Sessions
      BY Constants DEF NoRead
    <3>2. \A y \in Sessions : [y EXCEPT !.need = edges] \in Sessions
      BY <2>3 DEF Sessions
    <3> QED  BY <3>1, <3>2
  <2>5. FoundOrCreated \in Sessions
    BY <2>2, <2>4 DEF FoundOrCreated
  <2>6. \A s : \A x \in Sessions : UpdateSource(x, s) \in Sessions
    BY DEF UpdateSource, Sessions
  <2>7. md \in Sessions
    BY <2>5, <2>6
  <2>8. \A x \in Sessions : [x EXCEPT !.stopped = TRUE] \in Sessions
    BY DEF Sessions
  <2> HIDE DEF md
  <2> QED  BY <2>7, <2>8
<1>3. \/ KeepOpen(r, md)
      \/ \E o \in {"stopped", "error"} : Finish(r, st, o)
      \/ Finish(r, md, "success")
  BY DEF MergeItem
<1> HIDE DEF r, md, st
<1>4. CASE KeepOpen(r, md)
  <2>1. session' = Written(r, md) /\ out' = out
    BY <1>4 DEF KeepOpen
  <2> QED  BY <1>1, <1>2, <2>1, PassWrites
<1>5. ASSUME NEW o \in {"stopped", "error"}, Finish(r, st, o) PROVE RowTypes' /\ StepKinds
  <2>1. o \in Outcomes \ {"timeout"}
    BY DEF Outcomes
  <2>2. r \in Runs => st \in Sessions
    BY <1>2
  <2>3. RowTypes' /\ StepKinds
    BY <1>1, <1>5, <2>1, <2>2, PassFinishes
  <2> QED  BY <2>3
<1>6. CASE Finish(r, md, "success")
  <2>1. "success" \in Outcomes \ {"timeout"}
    BY DEF Outcomes
  <2>2. r \in Runs => md \in Sessions
    BY <1>2
  <2> QED  BY <1>1, <1>6, <2>1, <2>2, PassFinishes
<1> QED  BY <1>3, <1>4, <1>5, <1>6

\* A pass that starts a loop opens a session below the limit.
LEMMA StepStartLoop ==
    ASSUME RowTypes, ReadInv, StartLoop PROVE RowTypes' /\ StepKinds
<1> DEFINE r == pass.item.run
           x == [NoSession EXCEPT !.state = "started", !.iteration = 1]
<1>1. /\ pass.on /\ pass.seen.state = "none" /\ ~SessionsAtLimit
      /\ session' = [session EXCEPT ![r] = x]
      /\ kind' = kind /\ edges' = edges /\ hook' = hook /\ out' = out /\ pass' = NoPass
  BY DEF StartLoop, Takes, nodeVars
<1>2. x \in Sessions /\ x.state = "started"
  <2>1. NoSession \in Sessions
    BY Constants DEF NoRead
  <2>2. 1 \in 0 .. MaxIterations /\ "started" \in Active
    BY SelfManagedAssumption DEF Active, OpenStates
  <2>3. \A y \in Sessions : /\ [y EXCEPT !.state = "started", !.iteration = 1] \in Sessions
                            /\ [y EXCEPT !.state = "started", !.iteration = 1].state = "started"
    BY <2>2 DEF Sessions
  <2> QED  BY <2>1, <2>3
<1>3. session \in [Runs -> Sessions] /\ out \in [Runs -> Seq(Outcomes)]
  BY DEF RowTypes
<1>4. r \in Runs => session[r].state = "none"
  BY <1>1 DEF ReadInv
<1> HIDE DEF x, r
<1>5. /\ session' \in [Runs -> Sessions]
      /\ \A q \in Runs : \/ session'[q].state = session[q].state
                         \/ /\ q = r /\ session[q].state = "none"
                            /\ session'[q].state \in Active
                            /\ kind = "merge" \/ ~SessionsAtLimit
  BY <1>1, <1>2, <1>3, <1>4 DEF Active, OpenStates
<1>6. RowTypes'
  BY <1>1, <1>3, <1>5, PassOver
<1>7. StepKinds
  BY <1>1, <1>5, PassKeeps
<1> QED  BY <1>6, <1>7

\* Feedback decides a session or begins a round.
LEMMA StepHandleFeedback ==
    ASSUME RowTypes, ReadInv, HandleFeedback PROVE RowTypes' /\ StepKinds
<1> DEFINE r  == pass.item.run
           md == pass.seen
           nx == [md EXCEPT !.iteration = @ + 1]
<1>1. /\ pass.on /\ md.state # "none"
      /\ kind' = kind /\ edges' = edges /\ hook' = hook /\ pass' = NoPass
  BY DEF HandleFeedback, Takes, nodeVars
<1>2. r \in Runs => md \in Sessions /\ session[r].state # "none"
  BY <1>1 DEF RowTypes, ReadInv
<1>3. \/ \E o \in {"done", "error"} : Finish(r, md, o)
      \/ ~IsLastIteration(md) /\ session' = Written(r, nx) /\ out' = out
  BY DEF HandleFeedback
<1>4. ASSUME ~IsLastIteration(md), r \in Runs PROVE nx \in Sessions
  <2>1. md \in Sessions /\ md.iteration \in 0 .. MaxIterations
    BY <1>2, <1>4 DEF Sessions
  <2>2. md.iteration + 1 \in 0 .. MaxIterations
    BY <1>4, <2>1, SelfManagedAssumption DEF IsLastIteration
  <2> HIDE DEF md
  <2> QED  BY <2>1, <2>2 DEF Sessions
<1> HIDE DEF r, md, nx
<1>5. ASSUME NEW o \in {"done", "error"}, Finish(r, md, o) PROVE RowTypes' /\ StepKinds
  <2>1. o \in Outcomes \ {"timeout"}
    BY DEF Outcomes
  <2>2. r \in Runs => md \in Sessions
    BY <1>2
  <2>3. RowTypes' /\ StepKinds
    BY <1>1, <1>5, <2>1, <2>2, PassFinishes
  <2> QED  BY <2>3
<1>6. CASE ~IsLastIteration(md) /\ session' = Written(r, nx) /\ out' = out
  <2>1. r \in Runs => nx \in Sessions
    BY <1>4, <1>6
  <2>2. kind = "merge" \/ (r \in Runs => session[r].state # "none")
    BY <1>2
  <2>3. RowTypes' /\ StepKinds
    BY <1>1, <1>6, <2>1, <2>2, PassWrites
  <2> QED  BY <2>3
<1> QED  BY <1>3, <1>5, <1>6

\* Steps that leave what the invariant is about alone, but for what comes to the node.
LEMMA StepOutside ==
    ASSUME RowTypes, UNCHANGED <<kind, session, hook, out, pass>>, edges' \subseteq edges
    PROVE  RowTypes' /\ StepKinds
<1>1. RowTypes'
  BY DEF RowTypes
<1>2. StepKinds
  BY DEF StepKinds, SessionStep, Stays, HookStep, PassStep, LimitStep
<1> QED  BY <1>1, <1>2

\* The types beside a pass.
LEMMA BesideTypes ==
    ASSUME RowTypes, edges' = edges, pass' = pass, hook' \in [Hooks -> [Runs -> Sessions]],
           session' \in [Runs -> Sessions], out' \in [Runs -> Seq(Outcomes)]
    PROVE  RowTypes'
  BY DEF RowTypes

\* Cancellations, the executor and the terminator move the state of one session.
LEMMA StepMoves ==
    ASSUME RowTypes, NEW r \in Runs, NEW s \in Active \cup {"finished"},
           session' = [session EXCEPT ![r].state = s], session[r].state \in Active,
           s = "finished" => session[r].state = "cancelling",
           kind' = kind, edges' = edges, hook' = hook, pass' = pass, out' = out
    PROVE  RowTypes' /\ StepKinds
<1>0. s \in Active \cup {"none", "finished"}
  OBVIOUS
<1>1. /\ session' \in [Runs -> Sessions]
      /\ \A q \in Runs : session'[q].state = IF q = r THEN s ELSE session[q].state
  BY <1>0, StateRows
<1>2. RowTypes'
  <2>1. hook \in [Hooks -> [Runs -> Sessions]] /\ out \in [Runs -> Seq(Outcomes)]
    BY DEF RowTypes
  <2> QED  BY <1>1, <2>1, BesideTypes
<1>3. \A q \in Runs : Stays(q) \/ Moves(q) \/ Ends(q)
  BY <1>1 DEF Stays, Moves, Ends
<1>4. HookStep
  BY DEF HookStep
<1>5. StepKinds
  BY <1>3, <1>4, BesidePass
<1> QED  BY <1>2, <1>5

\* The executor starts a session, a user cancels it, the terminator ends it.
LEMMA StepState ==
    ASSUME RowTypes, ReadInv, NEW r \in Runs,
           StartSession(r) \/ CancelSession(r) \/ Terminate(r)
    PROVE  RowTypes' /\ StepKinds
<1>1. kind' = kind /\ edges' = edges /\ hook' = hook /\ pass' = pass /\ out' = out
  BY DEF StartSession, CancelSession, Terminate, nodeVars, queueVars, askVars
<1>2. CASE StartSession(r)
  <2>1. session[r].state = "pending" /\ session' = [session EXCEPT ![r].state = "started"]
    BY <1>2 DEF StartSession
  <2>2. "started" \in Active \cup {"finished"} /\ session[r].state \in Active
    BY <2>1 DEF Active, OpenStates
  <2> QED  BY <1>1, <2>1, <2>2, StepMoves
<1>3. CASE CancelSession(r)
  <2>1. /\ session[r].state \in OpenStates
        /\ session' = [session EXCEPT ![r].state = "cancelling"]
    BY <1>3 DEF CancelSession
  <2>2. "cancelling" \in Active \cup {"finished"} /\ session[r].state \in Active
    BY <2>1 DEF Active
  <2> QED  BY <1>1, <2>1, <2>2, StepMoves
<1>4. CASE Terminate(r)
  <2>1. session[r].state = "cancelling" /\ session' = [session EXCEPT ![r].state = "finished"]
    BY <1>4 DEF Terminate
  <2>2. "finished" \in Active \cup {"finished"} /\ session[r].state \in Active
    BY <2>1 DEF Active
  <2> QED  BY <1>1, <2>1, <2>2, StepMoves
<1> QED  BY <1>2, <1>3, <1>4

\* Draining a cancelled run cancels its open sessions.
LEMMA StepDrain ==
    ASSUME RowTypes, ReadInv, NEW r \in Runs, CancelRun(r) \/ DrainAgain(r)
    PROVE  RowTypes' /\ StepKinds
<1>1. /\ kind' = kind /\ edges' = edges /\ hook' = hook /\ pass' = pass /\ out' = out
      /\ session' = IF session[r].state \in OpenStates
                    THEN [session EXCEPT ![r].state = "cancelling"] ELSE session
  BY DEF CancelRun, DrainAgain, Drain, nodeVars, askVars
<1>2. CASE session[r].state \in OpenStates
  <2>1. "cancelling" \in Active \cup {"finished"} /\ session[r].state \in Active
    BY <1>2 DEF Active
  <2> QED  BY <1>1, <1>2, <2>1, StepMoves
<1>3. CASE session[r].state \notin OpenStates
  <2>1. UNCHANGED <<kind, session, hook, out, pass>> /\ edges' \subseteq edges
    BY <1>1, <1>3
  <2> QED  BY <2>1, StepOutside
<1> QED  BY <1>2, <1>3

\* A hook starts from a row that is open.
LEMMA StepReadForHook ==
    ASSUME RowTypes, ReadInv, NEW h \in Hooks, NEW r \in Runs, ReadForHook(h, r)
    PROVE  RowTypes' /\ StepKinds
<1>1. /\ UNCHANGED <<kind, edges, session, out, pass>>
      /\ hook' = IF session[r].state \in OpenStates
                 THEN [hook EXCEPT ![h][r] = session[r]] ELSE hook
  BY DEF ReadForHook, nodeVars, queueVars
<1>2. session \in [Runs -> Sessions] /\ out \in [Runs -> Seq(Outcomes)]
  BY DEF RowTypes
<1>3. session[r] \in Sessions
  BY <1>2
<1>4. /\ hook' \in [Hooks -> [Runs -> Sessions]]
      /\ HookStep
  <2>1. CASE session[r].state \in OpenStates
    <3>1. hook' = [hook EXCEPT ![h][r] = session[r]]
      BY <1>1, <2>1
    <3>2. /\ hook' \in [Hooks -> [Runs -> Sessions]]
          /\ hook'[h][r] = session[r]
          /\ \A g \in Hooks, q \in Runs : ~(g = h /\ q = r) => hook'[g][q] = hook[g][q]
      BY <1>3, <3>1, HookRows
    <3> QED  BY <1>1, <2>1, <3>2 DEF HookStep
  <2>2. CASE session[r].state \notin OpenStates
    BY <1>1, <2>2 DEF HookStep, RowTypes
  <2> QED  BY <2>1, <2>2
<1>5. RowTypes'
  BY <1>1, <1>2, <1>4, BesideTypes
<1>6. \A q \in Runs : Stays(q) \/ Moves(q) \/ Ends(q)
  BY <1>1 DEF Stays
<1>7. StepKinds
  BY <1>1, <1>4, <1>6, BesidePass
<1> QED  BY <1>5, <1>7

\* The timeout of a merge.
LEMMA StepMergeTimeout ==
    ASSUME RowTypes, ReadInv, NEW r \in Runs, MergeTimeout(r)
    PROVE  RowTypes' /\ StepKinds
<1>0. "timeout" \in Hooks /\ "timeout" \in Outcomes /\ kind # "loop"
  BY DEF Hooks, Outcomes, MergeTimeout
<1>1. /\ kind = "merge" /\ hook["timeout"][r] # NoRead
      /\ kind' = kind /\ edges' = edges /\ pass' = pass
  BY DEF MergeTimeout, nodeVars, queueVars
<1>2. HookDone("timeout", r)
  BY DEF MergeTimeout
<1>3. /\ hook' \in [Hooks -> [Runs -> Sessions]]
      /\ hook'["timeout"][r] = NoRead
      /\ HookStep
  BY <1>0, <1>2, HookDoneRows
<1>4. session \in [Runs -> Sessions] /\ out \in [Runs -> Seq(Outcomes)]
  BY DEF RowTypes
<1>5. /\ session' \in [Runs -> Sessions] /\ out' \in [Runs -> Seq(Outcomes)]
      /\ \A q \in Runs : SessionStep(q)
  <2>1. CASE /\ session' = [session EXCEPT ![r].state = "finished"]
             /\ out' = [out EXCEPT ![r] = Append(@, "timeout")]
    <3>1. "finished" \in Active \cup {"none", "finished"}
      OBVIOUS
    <3>2. /\ session' \in [Runs -> Sessions]
          /\ \A q \in Runs : session'[q].state =
                IF q = r THEN "finished" ELSE session[q].state
      BY <2>1, <3>1, StateRows
    <3>3. Append(out[r], "timeout") \in Seq(Outcomes)
      BY <1>0, <1>4
    <3>4. /\ out' \in [Runs -> Seq(Outcomes)] /\ out'[r] = Append(out[r], "timeout")
          /\ \A q \in Runs : q # r => out'[q] = out[q]
      BY <1>4, <2>1, <3>3
    <3>5. \A q \in Runs : Stays(q) \/ TimesOut(q)
      BY <1>1, <1>3, <3>2, <3>4 DEF Stays, TimesOut
    <3> QED  BY <3>2, <3>4, <3>5 DEF SessionStep
  <2>2. CASE session' = session /\ out' = out
    BY <1>4, <2>2 DEF SessionStep, Stays
  <2>3. CASE IsCancelled(r) /\ SaveRead("timeout", r) /\ out' = out
    <3>1. session' = [session EXCEPT ![r] = hook["timeout"][r]]
      BY <2>3 DEF SaveRead
    <3>2. /\ session' \in [Runs -> Sessions]
          /\ session'[r].state \in OpenStates
          /\ \A q \in Runs : q # r => session'[q] = session[q]
      BY <1>0, <1>1, <3>1, SaveRows
    <3>3. \A q \in Runs : Stays(q) \/ Moves(q) \/ Reopens(q)
      BY <1>1, <2>3, <3>2 DEF Stays, Moves, Reopens, IsCancelled, Active
    <3> QED  BY <1>4, <2>3, <3>2, <3>3 DEF SessionStep
  <2> QED  BY <2>1, <2>2, <2>3 DEF MergeTimeout
<1>6. RowTypes'
  BY <1>1, <1>3, <1>5, BesideTypes
<1>7. StepKinds
  BY <1>0, <1>1, <1>3, <1>5 DEF StepKinds, PassStep, LimitStep
<1> QED  BY <1>6, <1>7

\* The timeout of a loop.
LEMMA StepLoopTimeout ==
    ASSUME RowTypes, ReadInv, NEW r \in Runs, LoopTimeout(r)
    PROVE  RowTypes' /\ StepKinds
<1>0. "timeout" \in Hooks /\ "timeout" \in Outcomes
  BY DEF Hooks, Outcomes
<1>1. /\ hook["timeout"][r] # NoRead
      /\ kind' = kind /\ edges' = edges /\ pass' = pass
  BY DEF LoopTimeout, nodeVars, queueVars
<1>2. HookDone("timeout", r)
  BY DEF LoopTimeout
<1>3. /\ hook' \in [Hooks -> [Runs -> Sessions]]
      /\ hook'["timeout"][r] = NoRead
      /\ HookStep
  BY <1>0, <1>2, HookDoneRows
<1>4. session \in [Runs -> Sessions] /\ out \in [Runs -> Seq(Outcomes)]
  BY DEF RowTypes
<1>5. CASE session[r].state = "cancelling"
  <2>1. session' = [session EXCEPT ![r] = hook["timeout"][r]] /\ out' = out
    BY <1>5 DEF LoopTimeout, SaveRead
  <2>2. /\ session' \in [Runs -> Sessions]
        /\ session'[r].state \in OpenStates
        /\ \A q \in Runs : q # r => session'[q] = session[q]
    BY <1>0, <1>1, <2>1, SaveRows
  <2>3. \A q \in Runs : Stays(q) \/ Moves(q) \/ Ends(q)
    BY <1>5, <2>1, <2>2 DEF Stays, Moves, Active
  <2>4. RowTypes'
    BY <1>1, <1>3, <1>4, <2>1, <2>2, BesideTypes
  <2>5. StepKinds
    BY <1>1, <1>3, <2>3, BesidePass
  <2> QED  BY <2>4, <2>5
<1>6. CASE session[r].state # "cancelling"
  <2>1. Finish(r, hook["timeout"][r], "timeout")
    BY <1>6 DEF LoopTimeout
  <2>2. r \in Runs => hook["timeout"][r] \in Sessions
    BY <1>0 DEF RowTypes
  <2>3. /\ session' \in [Runs -> Sessions] /\ out' \in [Runs -> Seq(Outcomes)]
        /\ Finishes(r, "timeout")
    BY ONLY RowTypes, <1>0, <2>1, <2>2, FinishRows
  <2>4. RowTypes'
    BY <1>1, <1>3, <2>3, BesideTypes
  <2>5. session[r].state # "none"
    BY <1>0, <1>1 DEF ReadInv
  <2>6. \A q \in Runs : SessionStep(q)
    BY <1>0, <1>3, <2>3, <2>5 DEF Finishes, SessionStep, Stays, Decides
  <2>7. \A q \in Runs : session'[q].state \in Active => session[q].state \in Active
    BY <2>3 DEF Finishes, Active, OpenStates
  <2>8. StepKinds
    BY <1>1, <1>3, <2>6, <2>7 DEF StepKinds, PassStep, LimitStep
  <2> QED  BY <2>4, <2>8
<1> QED  BY <1>5, <1>6

\* The next round of a loop.
LEMMA StepNextIteration ==
    ASSUME RowTypes, ReadInv, NEW r \in Runs, NextIteration(r)
    PROVE  RowTypes' /\ StepKinds
<1>0. "next" \in Hooks
  BY DEF Hooks
<1>1. /\ hook["next"][r] # NoRead
      /\ kind' = kind /\ edges' = edges /\ pass' = pass /\ out' = out
  BY DEF NextIteration, nodeVars, queueVars
<1>2. HookDone("next", r)
  BY DEF NextIteration
<1>3. /\ hook' \in [Hooks -> [Runs -> Sessions]]
      /\ HookStep
  BY <1>0, <1>2, HookDoneRows
<1>4. out' \in [Runs -> Seq(Outcomes)]
  BY <1>1 DEF RowTypes
<1>5. session[r].state # "none" /\ hook["next"][r] \in Sessions
  BY <1>0, <1>1 DEF ReadInv, RowTypes
<1>6. session' \in [Runs -> Sessions] /\ \A q \in Runs : Stays(q) \/ Moves(q) \/ Ends(q)
  <2>1. CASE session[r].state = "finished"
    <3>1. session' = Written(r, hook["next"][r])
      BY <2>1 DEF NextIteration
    <3>2. /\ session' \in [Runs -> Sessions]
          /\ \A q \in Runs : session'[q].state = session[q].state
      BY <1>5, <2>1, <3>1, WrittenRows
    <3> QED  BY <1>1, <3>2 DEF Stays
  <2>2. CASE session[r].state # "finished"
    <3>1. session' = [session EXCEPT ![r] = hook["next"][r]]
      BY <2>2 DEF NextIteration, SaveRead
    <3>2. /\ session' \in [Runs -> Sessions]
          /\ session'[r].state \in OpenStates
          /\ \A q \in Runs : q # r => session'[q] = session[q]
      BY <1>0, <1>1, <3>1, SaveRows
    <3>3. session[r].state \in Active
      BY <1>5, <2>2 DEF RowTypes, Sessions
    <3> QED  BY <1>1, <3>2, <3>3 DEF Stays, Moves, Active
  <2> QED  BY <2>1, <2>2
<1>7. RowTypes'
  BY <1>1, <1>3, <1>4, <1>6, BesideTypes
<1>8. StepKinds
  BY <1>1, <1>3, <1>6, BesidePass
<1> QED  BY <1>7, <1>8

-----------------------------------------------------------------------------
(* The theorems. *)

\* The invariant holds before there are sessions ...
LEMMA InitHolds == Init => SessionInv
<1> SUFFICES ASSUME Init PROVE SessionInv
  OBVIOUS
<1>1. /\ edges = Sources /\ pass = NoPass
      /\ session = [r \in Runs |-> NoSession] /\ out = [r \in Runs |-> <<>>]
      /\ hook = [h \in Hooks |-> [r \in Runs |-> NoRead]]
  BY DEF Init
<1>2. NoSession \in Sessions /\ NoSession.state = "none"
  BY Constants DEF NoRead
<1>3. RowTypes
  BY <1>1, <1>2, Constants DEF RowTypes
<1>4. ReadInv
  BY <1>1, Constants DEF ReadInv
<1>5. OutInv /\ DecidedOnce
  BY <1>1 DEF OutInv, DecidedOnce
<1>6. SessionsWithinLimit
  <2>1. {r \in Runs : session[r].state \in Active} = {}
    BY <1>1, <1>2 DEF Active, OpenStates
  <2>2. Cardinality({}) <= MaxSessions
    BY FS_EmptySet, SelfManagedAssumption
  <2> QED  BY <2>1, <2>2 DEF SessionsWithinLimit
<1> QED  BY <1>3, <1>4, <1>5, <1>6 DEF SessionInv

\* Every step is of the kinds that the invariant survives.
LEMMA StepsAreOfKinds ==
    ASSUME RowTypes, ReadInv, Next PROVE RowTypes' /\ StepKinds
<1>1. CASE ReadItem
  BY <1>1, StepReadItem
<1>2. CASE SkipItem \/ DeferItem
  BY <1>2, StepPutBack
<1>3. CASE MergeItem
  BY <1>3, StepMergeItem
<1>4. CASE StartLoop
  BY <1>4, StepStartLoop
<1>5. CASE HandleFeedback
  BY <1>5, StepHandleFeedback
<1>6. ASSUME NEW s \in Sources, RemoveEdge(s) PROVE RowTypes' /\ StepKinds
  <2>1. UNCHANGED <<kind, session, hook, out, pass>> /\ edges' \subseteq edges
    BY <1>6 DEF RemoveEdge, queueVars
  <2> QED  BY <2>1, StepOutside
<1>7. ASSUME NEW r \in Runs, ArriveAtLoop(r) \/ \E s \in Sources : ArriveAtMerge(r, s)
      PROVE RowTypes' /\ StepKinds
  <2>1. UNCHANGED <<kind, session, hook, out, pass>> /\ edges' \subseteq edges
    BY <1>7 DEF ArriveAtLoop, ArriveAtMerge, nodeVars
  <2> QED  BY <2>1, StepOutside
<1>8. ASSUME NEW r \in Runs, StartSession(r) \/ CancelSession(r) \/ Terminate(r)
      PROVE RowTypes' /\ StepKinds
  BY <1>8, StepState
<1>9. ASSUME NEW r \in Runs, NEW h \in Hooks, ReadForHook(h, r)
      PROVE RowTypes' /\ StepKinds
  BY <1>9, StepReadForHook
<1>10. ASSUME NEW r \in Runs, MergeTimeout(r) PROVE RowTypes' /\ StepKinds
  BY <1>10, StepMergeTimeout
<1>11. ASSUME NEW r \in Runs, LoopTimeout(r) PROVE RowTypes' /\ StepKinds
  BY <1>11, StepLoopTimeout
<1>12. ASSUME NEW r \in Runs, NextIteration(r) PROVE RowTypes' /\ StepKinds
  BY <1>12, StepNextIteration
<1>13. ASSUME NEW r \in Runs, CancelRun(r) \/ DrainAgain(r) PROVE RowTypes' /\ StepKinds
  BY <1>13, StepDrain
<1> QED  BY <1>1, <1>2, <1>3, <1>4, <1>5, <1>6, <1>7, <1>8, <1>9, <1>10, <1>11, <1>12, <1>13
         DEF Next

\* ... every action keeps it ...
LEMMA InvStep == SessionInv /\ [Next]_vars => SessionInv'
<1> SUFFICES ASSUME SessionInv, [Next]_vars PROVE SessionInv'
  OBVIOUS
<1>1. CASE Next
  <2>1. RowTypes /\ ReadInv /\ OutInv /\ SessionsWithinLimit /\ DecidedOnce
    BY DEF SessionInv
  <2>2. RowTypes' /\ StepKinds
    BY <1>1, <2>1, StepsAreOfKinds
  <2>3. /\ kind' = kind /\ \A r \in Runs : SessionStep(r)
        /\ HookStep /\ PassStep /\ LimitStep
    BY <2>2 DEF StepKinds
  <2>4. ReadInv'
    BY <2>1, <2>3, KeepRead
  <2>5. OutInv' /\ DecidedOnce'
    BY <2>1, <2>3, KeepOut
  <2>6. SessionsWithinLimit'
    BY <2>1, <2>3, KeepLimit
  <2> QED  BY <2>2, <2>4, <2>5, <2>6 DEF SessionInv
<1>2. CASE UNCHANGED vars
  BY <1>2 DEF vars, nodeVars, queueVars, SessionInv, RowTypes, ReadInv, OutInv,
              SessionsWithinLimit, DecidedOnce
<1> QED  BY <1>1, <1>2

\* ... so it always holds.
LEMMA InvHolds == Spec => []SessionInv
  BY InitHolds, InvStep, PTL DEF Spec

(***************************************************************************)
(* A loop never has more sessions than its concurrency: the pass that      *)
(* counts them is the only one that opens one, and a hook that saves a row *)
(* it read before gives back a slot only to a session that still had it.   *)
(***************************************************************************)
THEOREM LoopsKeepToTheirLimit == Spec => []SessionsWithinLimit
<1>1. SessionInv => SessionsWithinLimit
  BY DEF SessionInv
<1> QED  BY <1>1, InvHolds, PTL

(***************************************************************************)
(* A session has one outcome, but for the timeout of a merge that another  *)
(* outcome overtook: Pass and Fail look at the state in the row they hold, *)
(* and only Merge.HandleTimeout holds none.                                *)
(***************************************************************************)
THEOREM SessionsAreDecidedOnce == Spec => []DecidedOnce
<1>1. SessionInv => DecidedOnce
  BY DEF SessionInv
<1> QED  BY <1>1, InvHolds, PTL

-----------------------------------------------------------------------------
(* Types. *)

\* The counters, and what is known of runs.
CountTypes ==
    /\ kind \in Kinds /\ timed \in BOOLEAN
    /\ run \in [Runs -> {"started", "cancelling"}]
    /\ timer \in [Runs -> BOOLEAN] /\ waiting \in [Runs -> Nat]
    /\ rounds \in [Runs -> Nat] /\ arrivals \in [Runs -> Nat]
    /\ delivered \in [Runs -> SUBSET Sources]
    /\ lost \subseteq Runs

QueueTypes == queue \in Seq(Items) /\ pass \in Passes \cup {NoPass}

\* The types of the rows and the rest are all of them.
LEMMA TypeParts == TypeOK <=> RowTypes /\ CountTypes /\ QueueTypes
<1>1. TypeOK => RowTypes /\ CountTypes /\ QueueTypes
  BY Constants DEF TypeOK, RowTypes, CountTypes, QueueTypes, Passes, NoPass
<1>2. RowTypes /\ CountTypes /\ QueueTypes => TypeOK
  BY DEF TypeOK, RowTypes, CountTypes, QueueTypes
<1> QED  BY <1>1, <1>2

\* A pass that is on holds an item of a run and what it read of it.
LEMMA PassHolds ==
    ASSUME QueueTypes, pass.on
    PROVE  /\ pass \in Passes /\ pass.item \in Items /\ pass.item.run \in Runs
           /\ pass.seen \in Sessions /\ pass.live \in BOOLEAN
<1>1. pass \in Passes
  BY Constants DEF QueueTypes
<1> QED  BY <1>1 DEF Passes, Items

\* What is left when the item of the pass is gone.
LEMMA DequeuedItems ==
    ASSUME QueueTypes
    PROVE  /\ Dequeued \in Seq(Items)
           /\ ItemsOf(Dequeued) \subseteq ItemsOf(queue)
           /\ ItemsOf(queue) \subseteq ItemsOf(Dequeued) \cup {pass.item}
           /\ StillQueued => /\ pass.item \in ItemsOf(queue)
                             /\ Distinct(queue) => pass.item \notin ItemsOf(Dequeued)
           /\ Distinct(queue) => Distinct(Dequeued)
<1>1. CASE StillQueued
  <2>1. queue # <<>> /\ Head(queue) = pass.item /\ Dequeued = Tail(queue)
    BY <1>1 DEF StillQueued, Dequeued
  <2>2. queue \in Seq(Items)
    BY DEF QueueTypes
  <2> QED  BY <2>1, <2>2, TailItems
<1>2. CASE ~StillQueued
  BY <1>2 DEF Dequeued, QueueTypes
<1> QED  BY <1>1, <1>2

\* Every step keeps the types of the queue and of the pass.
LEMMA QueueTypesNext ==
    ASSUME TypeOK, Next PROVE QueueTypes'
<1>0. /\ QueueTypes /\ session \in [Runs -> Sessions]
      /\ run \in [Runs -> {"started", "cancelling"}]
  BY TypeParts DEF TypeOK
<1>1. CASE ReadItem
  <2>1. queue # <<>> /\ queue' = queue
        /\ pass' = [on |-> TRUE, item |-> Head(queue), seen |-> session[Head(queue).run],
                    live |-> run[Head(queue).run] = "started"]
    BY <1>1 DEF ReadItem
  <2>2. Head(queue) \in Items
    BY <1>0, <2>1 DEF QueueTypes
  <2>3. session[Head(queue).run] \in Sessions
    BY <1>0, <2>2 DEF Items
  <2> DEFINE b == run[Head(queue).run] = "started"
  <2>4. b \in BOOLEAN
    OBVIOUS
  <2>5. pass' = [on |-> TRUE, item |-> Head(queue), seen |-> session[Head(queue).run], live |-> b]
    BY <2>1
  <2> HIDE DEF b
  <2> QED  BY <1>0, <2>1, <2>2, <2>3, <2>4, <2>5 DEF QueueTypes, Passes
<1>2. CASE SkipItem \/ MergeItem \/ StartLoop \/ HandleFeedback
  <2>1. queue' = Dequeued /\ pass' = NoPass
    BY <1>2 DEF SkipItem, MergeItem, StartLoop, HandleFeedback
  <2> QED  BY <1>0, <2>1, DequeuedItems DEF QueueTypes
<1>3. CASE DeferItem
  <2>1. pass' = NoPass /\ pass.on
        /\ queue' = IF StillQueued THEN Append(Tail(queue), pass.item) ELSE queue
    BY <1>3 DEF DeferItem, Takes
  <2>2. StillQueued => Tail(queue) \in Seq(Items)
    BY <1>0, TailItems DEF StillQueued, QueueTypes
  <2>3. pass.item \in Items
    BY <1>0, <2>1, PassHolds
  <2> QED  BY <1>0, <2>1, <2>2, <2>3 DEF QueueTypes
<1>4. ASSUME NEW r \in Runs, NEW s \in Sources \cup {"body"},
             queue' = Append(queue, [run |-> r, source |-> s]), pass' = pass
      PROVE  QueueTypes'
  <2>1. [run |-> r, source |-> s] \in Items
    BY DEF Items
  <2> QED  BY <1>0, <1>4, <2>1 DEF QueueTypes
<1>5. ASSUME NEW r \in Runs, ArriveAtLoop(r) \/ \E s \in Sources : ArriveAtMerge(r, s)
      PROVE  QueueTypes'
  <2>1. CASE ArriveAtLoop(r)
    BY <1>4, <2>1 DEF ArriveAtLoop
  <2>2. ASSUME NEW s \in Sources, ArriveAtMerge(r, s) PROVE QueueTypes'
    BY <1>4, <2>2 DEF ArriveAtMerge
  <2> QED  BY <1>5, <2>1, <2>2
<1>6. ASSUME NEW r \in Runs, CancelRun(r) \/ DrainAgain(r) PROVE QueueTypes'
  <2>1. queue' = Without(queue, {i \in Items : i.run = r}) /\ pass' = pass
    BY <1>6 DEF CancelRun, DrainAgain, Drain
  <2> QED  BY <1>0, <2>1, WithoutItems DEF QueueTypes
<1>7. CASE UNCHANGED queueVars
  BY <1>0, <1>7 DEF QueueTypes, queueVars
<1>8. CASE \E s \in Sources : RemoveEdge(s)
  BY <1>7, <1>8 DEF RemoveEdge
<1>9. ASSUME NEW r \in Runs,
             \/ StartSession(r) \/ \E h \in Hooks : ReadForHook(h, r)
             \/ MergeTimeout(r) \/ LoopTimeout(r) \/ NextIteration(r)
             \/ CancelSession(r) \/ Terminate(r)
      PROVE  QueueTypes'
  BY <1>7, <1>9 DEF StartSession, ReadForHook, MergeTimeout, LoopTimeout, NextIteration,
                    CancelSession, Terminate
<1> QED  BY <1>1, <1>2, <1>3, <1>5, <1>6, <1>8, <1>9 DEF Next

\* Finish completes the requests or leaves them alone.
LEMMA FinishCounts ==
    ASSUME CountTypes, NEW r, NEW md, NEW o, Finish(r, md, o)
    PROVE  timer' \in [Runs -> BOOLEAN] /\ waiting' \in [Runs -> Nat]
<1>1. timer \in [Runs -> BOOLEAN] /\ waiting \in [Runs -> Nat]
  BY DEF CountTypes
<1>2. \/ timer' = timer /\ waiting' = waiting
      \/ timer' = [timer EXCEPT ![r] = FALSE] /\ waiting' = [waiting EXCEPT ![r] = 0]
  BY DEF Finish, KeepOpen, askVars
<1>3. [timer EXCEPT ![r] = FALSE] \in [Runs -> BOOLEAN]
  BY <1>1
<1>4. [waiting EXCEPT ![r] = 0] \in [Runs -> Nat]
  BY <1>1
<1> QED  BY <1>1, <1>2, <1>3, <1>4

\* Every step keeps the types of the counters.
LEMMA CountTypesNext ==
    ASSUME TypeOK, Next PROVE CountTypes'
<1>0. CountTypes /\ QueueTypes
  BY TypeParts
<1>1. CASE ReadItem \/ SkipItem \/ DeferItem
  BY <1>0, <1>1 DEF ReadItem, SkipItem, DeferItem, CountTypes, nodeVars, askVars, histVars
<1>2. CASE MergeItem
  <2>1. UNCHANGED <<kind, timed, run, rounds, arrivals, delivered, lost>>
    BY <1>2 DEF MergeItem, nodeVars, histVars
  <2>2. \/ \E md, o : Finish(pass.item.run, md, o)
        \/ UNCHANGED askVars
    BY <1>2 DEF MergeItem, KeepOpen
  <2>3. timer' \in [Runs -> BOOLEAN] /\ waiting' \in [Runs -> Nat]
    <3>1. CASE \E md, o : Finish(pass.item.run, md, o)
      BY <1>0, <3>1, FinishCounts
    <3>2. CASE UNCHANGED askVars
      BY <1>0, <3>2 DEF CountTypes, askVars
    <3> QED  BY <2>2, <3>1, <3>2
  <2> QED  BY <1>0, <2>1, <2>3 DEF CountTypes
<1>3. CASE StartLoop
  <2>1. /\ UNCHANGED <<kind, timed, run, waiting, arrivals, delivered, lost>>
        /\ timer' = [timer EXCEPT ![pass.item.run] = TRUE]
        /\ rounds' = [rounds EXCEPT ![pass.item.run] = @ + 1]
    BY <1>3 DEF StartLoop, nodeVars, histVars
  <2>2. timer' \in [Runs -> BOOLEAN] /\ rounds' \in [Runs -> Nat]
    <3>1. pass.item.run \in Runs
      BY <1>0, <1>3, PassHolds DEF StartLoop, Takes
    <3> QED  BY <1>0, <2>1, <3>1 DEF CountTypes
  <2> QED  BY <1>0, <2>1, <2>2 DEF CountTypes
<1>4. CASE HandleFeedback
  <2> DEFINE r == pass.item.run
  <2>1. UNCHANGED <<kind, timed, run, arrivals, delivered, lost>>
    BY <1>4 DEF HandleFeedback, nodeVars, histVars
  <2>2. \/ (\E md, o : Finish(r, md, o)) /\ rounds' = rounds
        \/ EmitNextIteration(r) /\ timer' = timer
    BY <1>4 DEF HandleFeedback
  <2>3. /\ timer' \in [Runs -> BOOLEAN] /\ waiting' \in [Runs -> Nat]
        /\ rounds' \in [Runs -> Nat]
    <3> HIDE DEF r
    <3>1. CASE (\E md, o : Finish(r, md, o)) /\ rounds' = rounds
      <4>1. timer' \in [Runs -> BOOLEAN] /\ waiting' \in [Runs -> Nat]
        BY <1>0, <3>1, FinishCounts
      <4> QED  BY <1>0, <3>1, <4>1 DEF CountTypes
    <3>2. CASE EmitNextIteration(r) /\ timer' = timer
      BY <1>0, <3>2 DEF EmitNextIteration, CountTypes
    <3> QED  BY <2>2, <3>1, <3>2
  <2> QED  BY <1>0, <2>1, <2>3 DEF CountTypes
<1>5. CASE \E s \in Sources : RemoveEdge(s)
  BY <1>0, <1>5 DEF RemoveEdge, CountTypes, askVars, histVars
<1>6. ASSUME NEW r \in Runs, ArriveAtLoop(r) \/ \E s \in Sources : ArriveAtMerge(r, s)
      PROVE  CountTypes'
  <2>1. UNCHANGED <<kind, timed, run, timer, waiting, rounds, lost>>
    BY <1>6 DEF ArriveAtLoop, ArriveAtMerge, nodeVars, askVars
  <2>2. arrivals' = [arrivals EXCEPT ![r] = @ + 1]
    BY <1>6 DEF ArriveAtLoop, ArriveAtMerge
  <2>3. \/ delivered' = delivered
        \/ \E s \in Sources : delivered' = [delivered EXCEPT ![r] = @ \cup {s}]
    BY <1>6 DEF ArriveAtLoop, ArriveAtMerge
  <2>4. arrivals' \in [Runs -> Nat]
    BY <1>0, <2>2 DEF CountTypes
  <2>5. delivered' \in [Runs -> SUBSET Sources]
    BY <1>0, <2>3 DEF CountTypes
  <2> QED  BY <1>0, <2>1, <2>4, <2>5 DEF CountTypes
<1>7. ASSUME NEW r \in Runs, StartSession(r) \/ CancelSession(r) \/ Terminate(r)
      PROVE  CountTypes'
  <2>1. UNCHANGED <<kind, timed, run, rounds, arrivals, delivered, lost>>
    BY <1>7 DEF StartSession, CancelSession, Terminate, nodeVars, histVars
  <2>2. /\ timer' = timer \/ \E b \in BOOLEAN : timer' = [timer EXCEPT ![r] = b]
        /\ waiting' = waiting \/ waiting' = [waiting EXCEPT ![r] = 0]
    BY <1>0, <1>7 DEF StartSession, CancelSession, Terminate, askVars, CountTypes
  <2>3. timer' \in [Runs -> BOOLEAN] /\ waiting' \in [Runs -> Nat]
    BY <1>0, <2>2 DEF CountTypes
  <2> QED  BY <1>0, <2>1, <2>3 DEF CountTypes
<1>8. ASSUME NEW r \in Runs, NEW h \in Hooks, ReadForHook(h, r) PROVE CountTypes'
  <2>1. UNCHANGED <<kind, timed, run, rounds, arrivals, delivered, lost>>
    BY <1>8 DEF ReadForHook, nodeVars, histVars
  <2>2. timer' \in [Runs -> BOOLEAN]
    BY <1>0, <1>8 DEF ReadForHook, CountTypes
  <2>3. waiting' \in [Runs -> Nat]
    <3>1. CASE h = "next"
      <4>1. waiting[r] > 0 /\ waiting' = [waiting EXCEPT ![r] = @ - 1]
        BY <1>8, <3>1 DEF ReadForHook, Due
      <4>2. waiting[r] - 1 \in Nat
        BY <1>0, <4>1 DEF CountTypes
      <4> QED  BY <1>0, <4>1, <4>2 DEF CountTypes
    <3>2. CASE h # "next"
      BY <1>0, <1>8, <3>2 DEF ReadForHook, CountTypes
    <3> QED  BY <3>1, <3>2
  <2> QED  BY <1>0, <2>1, <2>2, <2>3 DEF CountTypes
<1>9. ASSUME NEW r \in Runs, MergeTimeout(r) PROVE CountTypes'
  BY <1>0, <1>9 DEF MergeTimeout, SaveRead, CountTypes, nodeVars, histVars
<1>10. ASSUME NEW r \in Runs, LoopTimeout(r) PROVE CountTypes'
  <2>1. UNCHANGED <<kind, timed, run, rounds, arrivals, delivered>>
    BY <1>10 DEF LoopTimeout, nodeVars, histVars
  <2>2. lost' \subseteq Runs
    BY <1>0, <1>10 DEF LoopTimeout, SaveRead, CountTypes
  <2>3. UNCHANGED askVars \/ \E md, o : Finish(r, md, o)
    BY <1>10 DEF LoopTimeout
  <2>4. timer' \in [Runs -> BOOLEAN] /\ waiting' \in [Runs -> Nat]
    <3>1. CASE \E md, o : Finish(r, md, o)
      BY <1>0, <3>1, FinishCounts
    <3>2. CASE UNCHANGED askVars
      BY <1>0, <3>2 DEF CountTypes, askVars
    <3> QED  BY <2>3, <3>1, <3>2
  <2> QED  BY <1>0, <2>1, <2>2, <2>4 DEF CountTypes
<1>11. ASSUME NEW r \in Runs, NextIteration(r) PROVE CountTypes'
  BY <1>0, <1>11 DEF NextIteration, SaveRead, CountTypes, nodeVars, askVars, histVars
<1>12. ASSUME NEW r \in Runs, CancelRun(r) \/ DrainAgain(r) PROVE CountTypes'
  BY <1>0, <1>12 DEF CancelRun, DrainAgain, Drain, CountTypes, nodeVars, askVars, histVars
<1> QED  BY <1>1, <1>2, <1>3, <1>4, <1>5, <1>6, <1>7, <1>8, <1>9, <1>10, <1>11, <1>12 DEF Next

(***************************************************************************)
(* Every row, request and counter has its type, for every set of runs and  *)
(* of sources and every limit: no request is taken that is not pending, no *)
(* count of iterations passes the limit, and a deferred item goes back as  *)
(* the item it was.                                                        *)
(***************************************************************************)
THEOREM NodeTypeCorrect == Spec => []TypeOK
<1>1. Init => TypeOK
  <2>1. Init => CountTypes /\ QueueTypes
    BY DEF Init, CountTypes, QueueTypes
  <2>2. Init => RowTypes
    BY InitHolds DEF SessionInv
  <2> QED  BY <2>1, <2>2, TypeParts
<1>2. TypeOK /\ SessionInv /\ [Next]_vars => TypeOK'
  <2>1. SUFFICES ASSUME TypeOK, SessionInv, [Next]_vars PROVE TypeOK'
    OBVIOUS
  <2>2. CASE Next
    <3>1. RowTypes'
      BY <2>1, <2>2, StepsAreOfKinds DEF SessionInv
    <3>2. CountTypes' /\ QueueTypes'
      BY <2>1, <2>2, CountTypesNext, QueueTypesNext
    <3>3. TypeOK' <=> RowTypes' /\ CountTypes' /\ QueueTypes'
      BY TypeParts, PTL
    <3> QED  BY <3>1, <3>2, <3>3
  <2>3. CASE UNCHANGED vars
    BY <2>1, <2>3 DEF vars, nodeVars, queueVars, askVars, histVars, TypeOK
  <2> QED  BY <2>1, <2>2, <2>3
<1> QED  BY <1>1, <1>2, InvHolds, PTL DEF Spec

-----------------------------------------------------------------------------
(* The rounds of a loop.  Each is brought on by one token: an item that is *)
(* queued or at the queue worker, a pending request or a hook that runs.   *)

IsQueued(r) == \E x \in ItemsOf(queue) : x.run = r
Holds(r)    == pass.on /\ pass.item.run = r
Here(r)     == IsQueued(r) \/ Holds(r)
Reading(r)  == hook["next"][r] # NoRead
Pending(r)  == waiting[r] + (IF Reading(r) THEN 1 ELSE 0)

(* A run has one item at a time, and it is the first while a pass is at it. *)
LoopQueue ==
    /\ \A x \in ItemsOf(queue) : x.source = "body"
    /\ pass.on => pass.item.source = "body"
    /\ Distinct(queue)
    /\ pass.on /\ pass.item \in ItemsOf(queue) => Head(queue) = pass.item

(* Of the tokens that came, those that are left and those that became rounds. *)
OneToken(r) ==
    /\ arrivals[r] <= rounds[r] + 1
    /\ rounds[r] + Pending(r) <= arrivals[r]
    /\ Here(r) => rounds[r] + Pending(r) + 1 <= arrivals[r]
    /\ session[r].state = "none" => rounds[r] = 0 /\ Pending(r) = 0

(* Whoever may bring on a round has read a count that covers the rounds before. *)
Counted(r) ==
    /\ rounds[r] + Pending(r) <= MaxIterations
    /\ session[r].state \in Active => rounds[r] + Pending(r) <= session[r].iteration
    /\ Reading(r) => rounds[r] + 1 <= hook["next"][r].iteration
    /\ Holds(r) /\ pass.seen.state \in Active => rounds[r] <= pass.seen.iteration

RoundInv(r) == OneToken(r) /\ (r \notin lost => Counted(r))

LoopInv == kind = "loop" => LoopQueue /\ \A r \in Runs : RoundInv(r)

(* A merge has no rounds. *)
NoRounds ==
    kind = "merge" =>
        \A r \in Runs : rounds[r] = 0 /\ waiting[r] = 0 /\ hook["next"][r] = NoRead

(* What the steps of a loop start from. *)
InLoop ==
    /\ kind = "loop" /\ Returns <= 1 /\ TypeOK /\ ReadInv
    /\ LoopQueue /\ \A r \in Runs : RoundInv(r)

-----------------------------------------------------------------------------
\* The types of what the counts are made of.
LEMMA CountsOf ==
    ASSUME TypeOK, NEW r \in Runs
    PROVE  /\ rounds[r] \in Nat /\ arrivals[r] \in Nat /\ waiting[r] \in Nat
           /\ session[r] \in Sessions /\ session[r].iteration \in 0 .. MaxIterations
           /\ session[r].state \in Active \cup {"none", "finished"}
           /\ hook["next"][r] \in Sessions /\ hook["next"][r].iteration \in 0 .. MaxIterations
<1>1. /\ rounds \in [Runs -> Nat] /\ arrivals \in [Runs -> Nat] /\ waiting \in [Runs -> Nat]
      /\ session \in [Runs -> Sessions] /\ hook \in [Hooks -> [Runs -> Sessions]]
  BY DEF TypeOK
<1>2. session[r] \in Sessions /\ hook["next"][r] \in Sessions
  BY <1>1 DEF Hooks
<1> QED  BY <1>1, <1>2 DEF Sessions

\* Items of a loop that belong to the same run are the same.
LEMMA SameItem ==
    ASSUME NEW x \in Items, NEW y \in Items, x.run = y.run, x.source = y.source
    PROVE  x = y
  BY DEF Items

(* What may happen to a session that no round follows from. *)
SessionRests(r) ==
    \/ session'[r] = session[r]
    \/ session[r].state # "none" /\ session'[r].state = "finished"
    \/ /\ session[r].state \in Active /\ session'[r].state # "none"
       /\ session'[r].iteration = session[r].iteration
    \/ session'[r].state # "none" /\ r \in lost'

(* No token becomes a round. *)
RunRests(r) ==
    /\ rounds'[r] = rounds[r] /\ arrivals'[r] = arrivals[r]
    /\ waiting'[r] = waiting[r] \/ waiting'[r] = 0
    /\ hook'["next"][r] = hook["next"][r]
    /\ lost \subseteq lost'
    /\ SessionRests(r)

\* Tokens that stay or vanish change nothing.
LEMMA KeepRound ==
    ASSUME TypeOK, NEW r \in Runs, RoundInv(r), RunRests(r),
           Here(r)' => Here(r),
           Holds(r)' => (Holds(r) /\ pass'.seen = pass.seen) \/ pass'.seen = session[r]
    PROVE  RoundInv(r)'
<1>1. /\ rounds[r] \in Nat /\ arrivals[r] \in Nat /\ waiting[r] \in Nat
      /\ session[r].iteration \in 0 .. MaxIterations
      /\ session[r].state \in Active \cup {"none", "finished"}
      /\ hook["next"][r].iteration \in 0 .. MaxIterations
      /\ MaxIterations \in Nat
  BY CountsOf, SelfManagedAssumption
<1>2. Reading(r)' <=> Reading(r)
  BY DEF Reading, RunRests
<1>3. Pending(r)' <= Pending(r) /\ Pending(r)' \in Nat /\ Pending(r) \in Nat
  BY <1>1, <1>2 DEF Pending, RunRests
<1>4. "none" \notin Active /\ "finished" \notin Active
  BY DEF Active, OpenStates
<1>5. OneToken(r)'
  <2>1. session'[r].state = "none" => session[r].state = "none"
    BY <1>4 DEF RunRests, SessionRests
  <2> QED  BY <1>1, <1>3, <2>1 DEF RoundInv, OneToken, RunRests
<1>6. ASSUME r \notin lost' PROVE Counted(r)'
  <2>1. Counted(r)
    BY <1>6 DEF RoundInv, RunRests
  <2>2. session'[r].state \in Active =>
           session[r].state \in Active /\ session'[r].iteration = session[r].iteration
    BY <1>4, <1>6 DEF RunRests, SessionRests
  <2>3. rounds'[r] = rounds[r] /\ hook'["next"][r] = hook["next"][r]
    BY DEF RunRests
  <2>4. rounds'[r] + Pending(r)' <= MaxIterations
    BY <1>1, <1>3, <2>1, <2>3 DEF Counted
  <2>5. session'[r].state \in Active => rounds'[r] + Pending(r)' <= session'[r].iteration
    BY <1>1, <1>3, <2>1, <2>2, <2>3 DEF Counted
  <2>6. Reading(r)' => rounds'[r] + 1 <= hook'["next"][r].iteration
    BY <1>2, <2>1, <2>3 DEF Counted
  <2>7. Holds(r)' /\ pass'.seen.state \in Active => rounds'[r] <= pass'.seen.iteration
    <3>1. session[r].state \in Active => rounds[r] <= session[r].iteration
      BY <1>1, <1>3, <2>1 DEF Counted
    <3> QED  BY <2>1, <2>3, <3>1 DEF Counted
  <2> QED  BY <2>4, <2>5, <2>6, <2>7 DEF Counted
<1> QED  BY <1>5, <1>6 DEF RoundInv

-----------------------------------------------------------------------------
(* What the steps of a loop do to its queue. *)

\* The pass takes the first item and what the session is now.
LEMMA LoopRead ==
    ASSUME QueueTypes, LoopQueue, ReadItem
    PROVE  /\ LoopQueue'
           /\ \A r : Here(r)' => Here(r)
           /\ \A r : Holds(r)' => pass'.seen = session[r]
<1>1. /\ queue # <<>> /\ queue' = queue
      /\ pass' = [on |-> TRUE, item |-> Head(queue), seen |-> session[Head(queue).run],
                  live |-> run[Head(queue).run] = "started"]
  BY DEF ReadItem
<1>2. Head(queue) \in ItemsOf(queue)
  BY <1>1, TailItems DEF QueueTypes
<1>3. pass'.on /\ pass'.item = Head(queue) /\ pass'.seen = session[Head(queue).run]
  BY <1>1
<1>4. LoopQueue'
  BY <1>1, <1>2, <1>3 DEF LoopQueue
<1>5. \A r : Here(r)' => Here(r)
  BY <1>1, <1>2, <1>3 DEF Here, Holds, IsQueued
<1>6. \A r : Holds(r)' => pass'.seen = session[r]
  BY <1>3 DEF Holds
<1> QED  BY <1>4, <1>5, <1>6

\* A pass that is done with its item leaves nothing of that run.
LEMMA LoopDequeue ==
    ASSUME QueueTypes, LoopQueue, pass.on, pass' = NoPass, queue' = Dequeued
    PROVE  /\ LoopQueue'
           /\ \A r : Here(r)' => Here(r)
           /\ \A r : ~Holds(r)'
           /\ \A r : r = pass.item.run => ~Here(r)'
<1>1. ~pass'.on
  BY Constants
<1>2. /\ queue' \in Seq(Items) /\ ItemsOf(queue') \subseteq ItemsOf(queue)
      /\ Distinct(queue')
      /\ StillQueued => pass.item \notin ItemsOf(queue')
  BY DequeuedItems DEF LoopQueue
<1>3. pass.item \in Items /\ queue \in Seq(Items)
  BY PassHolds DEF QueueTypes
<1>4. pass.item \notin ItemsOf(queue')
  <2>1. SUFFICES ASSUME ~StillQueued PROVE pass.item \notin ItemsOf(queue)
    BY <1>2
  <2>2. queue = <<>> => ItemsOf(queue) = {}
    BY DEF ItemsOf
  <2> QED  BY <2>1, <2>2 DEF StillQueued, LoopQueue
<1>5. \A x \in ItemsOf(queue) : x \in Items
  BY <1>3 DEF ItemsOf
<1>6. ASSUME NEW r, r = pass.item.run PROVE ~IsQueued(r)'
  <2>1. ASSUME NEW x \in ItemsOf(queue'), x.run = pass.item.run PROVE FALSE
    <3>1. x \in Items /\ x.source = "body" /\ pass.item.source = "body"
      BY <1>2, <1>5 DEF LoopQueue
    <3>2. x = pass.item
      BY <1>3, <2>1, <3>1, SameItem
    <3> QED  BY <1>4, <3>2
  <2>2. \A x \in ItemsOf(queue') : x.run # pass.item.run
    BY <2>1
  <2> QED  BY <1>6, <2>2 DEF IsQueued
<1>7. LoopQueue'
  BY <1>1, <1>2 DEF LoopQueue
<1> QED  BY <1>1, <1>2, <1>6, <1>7 DEF Here, Holds, IsQueued

\* A deferred item goes to the back.
LEMMA LoopDefer ==
    ASSUME QueueTypes, LoopQueue, DeferItem
    PROVE  /\ LoopQueue'
           /\ \A r : Here(r)' => Here(r)
           /\ \A r : ~Holds(r)'
<1>1. /\ pass.on /\ pass' = NoPass
      /\ queue' = IF StillQueued THEN Append(Tail(queue), pass.item) ELSE queue
  BY DEF DeferItem, Takes
<1>2. ~pass'.on
  BY <1>1, Constants
<1>3. ItemsOf(queue') = ItemsOf(queue) /\ Distinct(queue')
  <2>1. CASE StillQueued
    <3>1. queue # <<>> /\ Head(queue) = pass.item /\ queue \in Seq(Items)
      BY <2>1 DEF StillQueued, QueueTypes
    <3>2. /\ pass.item \in Items /\ Tail(queue) \in Seq(Items)
          /\ ItemsOf(queue) = {pass.item} \cup ItemsOf(Tail(queue))
          /\ Distinct(Tail(queue)) /\ pass.item \notin ItemsOf(Tail(queue))
      BY <3>1, TailItems DEF LoopQueue
    <3> DEFINE t == Tail(queue)
    <3>3. t \in Seq(Items) /\ Distinct(t) /\ pass.item \notin ItemsOf(t)
      BY <3>2
    <3>4. queue' = Append(t, pass.item)
      BY <1>1, <2>1
    <3>5. ItemsOf(queue) = {pass.item} \cup ItemsOf(t)
      BY <3>2
    <3> HIDE DEF t
    <3>6. /\ ItemsOf(Append(t, pass.item)) = ItemsOf(t) \cup {pass.item}
          /\ Distinct(Append(t, pass.item))
      BY <3>2, <3>3, AppendItems
    <3> QED  BY <3>4, <3>5, <3>6
  <2>2. CASE ~StillQueued
    BY <1>1, <2>2 DEF LoopQueue
  <2> QED  BY <2>1, <2>2
<1>4. LoopQueue'
  BY <1>2, <1>3 DEF LoopQueue
<1> QED  BY <1>2, <1>3, <1>4 DEF Here, Holds, IsQueued

\* Draining a run takes its items and leaves the others in their order.
LEMMA LoopDrain ==
    ASSUME QueueTypes, LoopQueue, NEW r \in Runs, Drain(r)
    PROVE  /\ LoopQueue'
           /\ \A q : Here(q)' => Here(q)
           /\ \A q : Holds(q)' => Holds(q) /\ pass'.seen = pass.seen
<1> DEFINE ds == {i \in Items : i.run = r}
<1>1. queue' = Without(queue, ds) /\ pass' = pass
  BY DEF Drain
<1>2. queue \in Seq(Items) /\ \A x \in ItemsOf(queue) : x \in Items
  BY DEF QueueTypes, ItemsOf
<1> HIDE DEF ds
<1>3. /\ queue' \in Seq(Items)
      /\ ItemsOf(queue') = ItemsOf(queue) \ ds
      /\ Distinct(queue')
      /\ queue # <<>> /\ Head(queue) \notin ds => Head(queue') = Head(queue)
  BY <1>1, <1>2, WithoutRows DEF LoopQueue
<1>4. ASSUME pass.on, pass.item \in ItemsOf(queue') PROVE Head(queue') = pass.item
  <2>1. pass.item \in ItemsOf(queue) /\ pass.item \notin ds
    BY <1>3, <1>4
  <2>2. Head(queue) = pass.item
    BY <1>4, <2>1 DEF LoopQueue
  <2>3. queue # <<>>
    BY <2>1 DEF ItemsOf
  <2> QED  BY <1>3, <2>1, <2>2, <2>3
<1>5. LoopQueue'
  BY <1>1, <1>3, <1>4 DEF LoopQueue
<1> QED  BY <1>1, <1>3, <1>5 DEF Here, Holds, IsQueued

\* An item comes only for a run that has none.
LEMMA LoopArrive ==
    ASSUME QueueTypes, LoopQueue, NEW r \in Runs, ~Here(r), ArriveAtLoop(r)
    PROVE  /\ LoopQueue'
           /\ \A q : q # r /\ Here(q)' => Here(q)
           /\ \A q : Holds(q)' <=> Holds(q)
<1> DEFINE x == [run |-> r, source |-> "body"]
<1>1. queue' = Append(queue, x) /\ pass' = pass
  BY DEF ArriveAtLoop
<1>2. x \in Items /\ x.run = r /\ x.source = "body" /\ queue \in Seq(Items)
  BY DEF Items, QueueTypes
<1> HIDE DEF x
<1>3. x \notin ItemsOf(queue) /\ (pass.on => pass.item # x)
  BY <1>2 DEF Here, IsQueued, Holds
<1>4. /\ ItemsOf(queue') = ItemsOf(queue) \cup {x}
      /\ queue # <<>> => Head(queue') = Head(queue)
      /\ Distinct(queue')
  BY <1>1, <1>2, <1>3, AppendItems DEF LoopQueue
<1>5. ASSUME pass.on, pass.item \in ItemsOf(queue') PROVE Head(queue') = pass.item
  <2>1. pass.item \in ItemsOf(queue)
    BY <1>3, <1>4, <1>5
  <2>2. queue # <<>>
    BY <2>1 DEF ItemsOf
  <2> QED  BY <1>4, <1>5, <2>1, <2>2 DEF LoopQueue
<1>6. LoopQueue'
  BY <1>1, <1>2, <1>4, <1>5 DEF LoopQueue
<1> QED  BY <1>1, <1>2, <1>4, <1>6 DEF Here, Holds, IsQueued

\* Steps beside the queue.
LEMMA LoopBeside ==
    ASSUME LoopQueue, UNCHANGED queueVars
    PROVE  /\ LoopQueue'
           /\ \A q : Here(q)' <=> Here(q)
           /\ \A q : Holds(q)' => Holds(q) /\ pass'.seen = pass.seen
  BY DEF queueVars, LoopQueue, Here, Holds, IsQueued

-----------------------------------------------------------------------------
(* What the writes leave of the metadata. *)

\* The same metadata.
SameData(x, y) ==
    x.need = y.need /\ x.got = y.got /\ x.stopped = y.stopped /\ x.iteration = y.iteration

\* A row with another state has the same metadata.
LEMMA StateData ==
    ASSUME NEW x \in Sessions, NEW s
    PROVE  SameData([x EXCEPT !.state = s], x) /\ [x EXCEPT !.state = s].state = s
  BY DEF Sessions, SameData

\* Metadata.Set writes the metadata of one run and no state that there is.
LEMMA WrittenData ==
    ASSUME RowTypes, NEW r \in Runs, NEW md \in Sessions, session' = Written(r, md)
    PROVE  /\ \A q \in Runs : q # r => session'[q] = session[q]
           /\ SameData(session'[r], md)
           /\ session'[r].state =
                 IF session[r].state = "none" THEN "pending" ELSE session[r].state
<1> DEFINE s == IF session[r].state = "none" THEN "pending" ELSE session[r].state
           x == [md EXCEPT !.state = s]
<1>1. session' = [session EXCEPT ![r] = x] /\ session \in [Runs -> Sessions]
  BY DEF Written, RowTypes
<1>2. SameData(x, md) /\ x.state = s
  <2> HIDE DEF s
  <2> QED  BY StateData
<1> HIDE DEF x
<1>3. session'[r] = x /\ \A q \in Runs : q # r => session'[q] = session[q]
  BY <1>1
<1> QED  BY <1>2, <1>3

\* Finish ends the session, or writes the metadata of one that is ended already.
LEMMA FinishData ==
    ASSUME RowTypes, CountTypes, NEW r \in Runs, NEW md \in Sessions, NEW o, Finish(r, md, o)
    PROVE  /\ \A q \in Runs : q # r => session'[q] = session[q] /\ waiting'[q] = waiting[q]
           /\ waiting'[r] = waiting[r] \/ waiting'[r] = 0
           /\ SameData(session'[r], md)
           /\ \/ session'[r].state = "finished"
              \/ session[r].state = "cancelling" /\ session'[r].state = "cancelling"
<1>0. waiting \in [Runs -> Nat] /\ session \in [Runs -> Sessions]
  BY DEF CountTypes, RowTypes
<1>1. CASE session[r].state \in {"finished", "cancelling"}
  <2>1. session' = Written(r, md) /\ waiting' = waiting
    BY <1>1 DEF Finish, KeepOpen, askVars
  <2> QED  BY <1>1, <2>1, WrittenData
<1>2. CASE session[r].state \notin {"finished", "cancelling"}
  <2> DEFINE x == [md EXCEPT !.state = "finished"]
  <2>1. session' = [session EXCEPT ![r] = x] /\ waiting' = [waiting EXCEPT ![r] = 0]
    BY <1>2 DEF Finish
  <2>2. SameData(x, md) /\ x.state = "finished"
    BY StateData
  <2> HIDE DEF x
  <2> QED  BY <1>0, <2>1, <2>2
<1> QED  BY <1>1, <1>2

\* The state of one run is written.
LEMMA StateWritten ==
    ASSUME RowTypes, NEW r \in Runs, NEW s, session' = [session EXCEPT ![r].state = s]
    PROVE  /\ \A q \in Runs : q # r => session'[q] = session[q]
           /\ SameData(session'[r], session[r]) /\ session'[r].state = s
<1> DEFINE x == [session[r] EXCEPT !.state = s]
<1>1. session \in [Runs -> Sessions]
  BY DEF RowTypes
<1>2. SameData(x, session[r]) /\ x.state = s
  BY <1>1, StateData
<1>3. session' = [session EXCEPT ![r] = x]
  OBVIOUS
<1> HIDE DEF x
<1> QED  BY <1>1, <1>2, <1>3

-----------------------------------------------------------------------------
(* Every action of a loop keeps its count. *)

\* The parts of what the steps start from.
LEMMA InLoopTypes ==
    ASSUME InLoop
    PROVE  /\ RowTypes /\ CountTypes /\ QueueTypes
           /\ \A r \in Runs : RoundInv(r)
           /\ \A r \in Runs : rounds[r] \in Nat /\ waiting[r] \in Nat /\ arrivals[r] \in Nat
           /\ MaxIterations \in Nat \ {0}
  BY TypeParts, CountsOf, SelfManagedAssumption DEF InLoop

\* Passes that read an item or put it back.
LEMMA RoundsPutBack ==
    ASSUME InLoop, ReadItem \/ SkipItem \/ DeferItem
    PROVE  LoopQueue' /\ \A r \in Runs : RoundInv(r)'
<1>1. UNCHANGED <<session, waiting, hook, rounds, arrivals, lost>>
  BY DEF ReadItem, SkipItem, DeferItem, askVars, histVars
<1>2. \A r \in Runs : RunRests(r)
  BY <1>1 DEF RunRests, SessionRests
<1>3. /\ LoopQueue'
      /\ \A r : Here(r)' => Here(r)
      /\ \A r : Holds(r)' => pass'.seen = session[r]
  <2>1. CASE ReadItem
    BY <2>1, LoopRead, InLoopTypes DEF InLoop
  <2>2. CASE SkipItem
    <3>1. pass.on /\ pass' = NoPass /\ queue' = Dequeued
      BY <2>2 DEF SkipItem
    <3> QED  BY <3>1, LoopDequeue, InLoopTypes DEF InLoop
  <2>3. CASE DeferItem
    BY <2>3, LoopDefer, InLoopTypes DEF InLoop
  <2> QED  BY <2>1, <2>2, <2>3
<1>4. ASSUME NEW r \in Runs PROVE RoundInv(r)'
  BY <1>2, <1>3, KeepRound, InLoopTypes DEF InLoop
<1> QED  BY <1>3, <1>4

\* The first round of a loop.
LEMMA RoundsStart ==
    ASSUME InLoop, StartLoop
    PROVE  LoopQueue' /\ \A r \in Runs : RoundInv(r)'
<1> DEFINE x == [NoSession EXCEPT !.state = "started", !.iteration = 1]
<1>1. PICK r \in Runs : r = pass.item.run
  BY PassHolds, InLoopTypes DEF StartLoop, Takes
<1>2. /\ pass.on /\ pass.seen.state = "none" /\ pass' = NoPass /\ queue' = Dequeued
      /\ session' = [session EXCEPT ![r] = x]
      /\ rounds' = [rounds EXCEPT ![r] = @ + 1]
      /\ UNCHANGED <<waiting, hook, arrivals, lost>>
  BY <1>1 DEF StartLoop, Takes, histVars
<1>3. /\ LoopQueue'
      /\ \A q : Here(q)' => Here(q)
      /\ \A q : ~Holds(q)'
      /\ ~Here(r)'
  BY <1>1, <1>2, LoopDequeue, InLoopTypes DEF InLoop
<1>4. x.state = "started" /\ x.iteration = 1
  BY DEF NoSession
<1> HIDE DEF x
<1>5. session \in [Runs -> Sessions] /\ rounds \in [Runs -> Nat]
  BY InLoopTypes DEF RowTypes, CountTypes
<1>6. RoundInv(r)'
  <2>1. session'[r] = x /\ rounds'[r] = rounds[r] + 1 /\ Pending(r)' = Pending(r)
    BY <1>2, <1>5 DEF Pending, Reading
  <2>2. session[r].state = "none"
    BY <1>1, <1>2 DEF InLoop, ReadInv
  <2>3. rounds[r] = 0 /\ Pending(r) = 0 /\ rounds[r] + Pending(r) + 1 <= arrivals[r]
        /\ arrivals[r] <= rounds[r] + 1
    BY <1>1, <1>2, <2>2, InLoopTypes DEF RoundInv, OneToken, Here, Holds
  <2>4. ~Reading(r)' /\ arrivals'[r] = arrivals[r] /\ arrivals[r] \in Nat
    BY <1>2, <2>3, InLoopTypes DEF Pending, Reading
  <2>5. OneToken(r)'
    BY <1>3, <1>4, <2>1, <2>3, <2>4 DEF OneToken
  <2>6. Counted(r)'
    BY <1>3, <1>4, <2>1, <2>3, <2>4, InLoopTypes DEF Counted
  <2> QED  BY <2>5, <2>6 DEF RoundInv
<1>7. ASSUME NEW q \in Runs, q # r PROVE RoundInv(q)'
  <2>1. RunRests(q)
    BY <1>2, <1>5, <1>7 DEF RunRests, SessionRests
  <2> QED  BY <1>3, <2>1, KeepRound, InLoopTypes DEF InLoop
<1> QED  BY <1>3, <1>6, <1>7

\* What comes back from the body.
LEMMA RoundsArrive ==
    ASSUME InLoop, NEW r \in Runs, ArriveAtLoop(r)
    PROVE  LoopQueue' /\ \A q \in Runs : RoundInv(q)'
<1>1. /\ arrivals' = [arrivals EXCEPT ![r] = @ + 1]
      /\ UNCHANGED <<pass, session, waiting, hook, rounds, lost>>
  BY DEF ArriveAtLoop, askVars
<1>2. arrivals[r] <= rounds[r]
  <2>1. arrivals[r] <= Returns * rounds[r] /\ Returns \in {0, 1}
    BY SelfManagedAssumption DEF ArriveAtLoop, InLoop
  <2>2. rounds[r] \in Nat
    BY InLoopTypes
  <2>3. CASE Returns = 0
    BY <2>1, <2>2, <2>3, InLoopTypes
  <2>4. CASE Returns = 1
    BY <2>1, <2>2, <2>4, InLoopTypes
  <2> QED  BY <2>1, <2>3, <2>4
<1>3. OneToken(r) /\ Pending(r) \in Nat
  BY InLoopTypes DEF RoundInv, Pending
<1>4. ~Here(r) /\ Pending(r) = 0 /\ arrivals[r] = rounds[r]
  BY <1>2, <1>3, InLoopTypes DEF OneToken
<1>5. /\ LoopQueue'
      /\ \A q : q # r /\ Here(q)' => Here(q)
      /\ \A q : Holds(q)' <=> Holds(q)
  BY <1>4, LoopArrive, InLoopTypes DEF InLoop
<1>6. RoundInv(r)'
  <2>1. arrivals'[r] = arrivals[r] + 1 /\ rounds'[r] = rounds[r] /\ session'[r] = session[r]
        /\ hook'["next"][r] = hook["next"][r] /\ pass' = pass /\ lost' = lost
    BY <1>1, InLoopTypes DEF CountTypes
  <2>2. Pending(r)' = Pending(r) /\ (Reading(r)' <=> Reading(r))
    BY <1>1 DEF Pending, Reading
  <2>3. OneToken(r)'
    BY <1>3, <1>4, <2>1, <2>2, InLoopTypes DEF OneToken
  <2>4. Counted(r) => Counted(r)'
    BY <1>5, <2>1, <2>2 DEF Counted
  <2> QED  BY <2>1, <2>3, <2>4, InLoopTypes DEF RoundInv
<1>7. ASSUME NEW q \in Runs, q # r PROVE RoundInv(q)'
  <2>1. RunRests(q)
    BY <1>1, <1>7, InLoopTypes DEF RunRests, SessionRests, CountTypes
  <2> QED  BY <1>1, <1>5, <1>7, <2>1, KeepRound, InLoopTypes DEF InLoop
<1> QED  BY <1>5, <1>6, <1>7

\* Feedback decides the loop, or brings on a round that the limit allows.
LEMMA RoundsFeedback ==
    ASSUME InLoop, HandleFeedback
    PROVE  LoopQueue' /\ \A r \in Runs : RoundInv(r)'
<1>1. PICK r \in Runs : r = pass.item.run
  BY PassHolds, InLoopTypes DEF HandleFeedback, Takes
<1> DEFINE md == pass.seen
           nx == [md EXCEPT !.iteration = @ + 1]
<1>2. /\ pass.on /\ pass' = NoPass /\ queue' = Dequeued
      /\ md \in Sessions /\ md.state \in Active
      /\ UNCHANGED <<hook, arrivals, lost>>
  <2>1. /\ pass.on /\ pass' = NoPass /\ queue' = Dequeued /\ md.state \notin {"none", "finished"}
        /\ UNCHANGED <<hook, arrivals, lost>>
    BY DEF HandleFeedback, Takes, histVars
  <2>2. md \in Sessions
    BY <2>1, PassHolds, InLoopTypes
  <2> QED  BY <2>1, <2>2 DEF Sessions
<1>3. /\ LoopQueue'
      /\ \A q : Here(q)' => Here(q)
      /\ \A q : ~Holds(q)'
      /\ ~Here(r)'
  BY <1>1, <1>2, LoopDequeue, InLoopTypes DEF InLoop
<1>4. /\ md.iteration \in 0 .. MaxIterations
      /\ SameData(md, md)
      /\ nx.iteration = md.iteration + 1
  BY <1>2 DEF Sessions, SameData
<1>5. \/ /\ \E o : Finish(r, md, o)
         /\ rounds' = rounds
      \/ /\ ~IsLastIteration(md) /\ session' = Written(r, nx)
         /\ EmitNextIteration(r)
  BY <1>1 DEF HandleFeedback
<1>6. ASSUME ~IsLastIteration(md) PROVE nx \in Sessions
  <2>1. md.iteration + 1 \in 0 .. MaxIterations
    BY <1>4, <1>6, InLoopTypes DEF IsLastIteration
  <2> HIDE DEF md
  <2> QED  BY <1>2, <2>1 DEF Sessions
<1>7. /\ session[r].state # "none"
      /\ rounds[r] + Pending(r) + 1 <= arrivals[r] /\ arrivals[r] <= rounds[r] + 1
      /\ r \notin lost => rounds[r] <= md.iteration
  <2>1. Holds(r) /\ Here(r)
    BY <1>1, <1>2 DEF Here, Holds
  <2>2. session[r].state # "none"
    <3>1. md.state # "none"
      BY <1>2 DEF Active, OpenStates
    <3> QED  BY <1>1, <1>2, <3>1 DEF InLoop, ReadInv
  <2>3. RoundInv(r)
    BY InLoopTypes
  <2>4. rounds[r] + Pending(r) + 1 <= arrivals[r] /\ arrivals[r] <= rounds[r] + 1
    BY <2>1, <2>3 DEF RoundInv, OneToken
  <2>5. r \notin lost => rounds[r] <= md.iteration
    BY <1>2, <2>1, <2>3 DEF RoundInv, Counted
  <2> QED  BY <2>2, <2>4, <2>5
<1>8. waiting[r] = 0 /\ ~Reading(r) /\ arrivals[r] = rounds[r] + 1 /\ rounds[r] \in Nat
  BY <1>7, InLoopTypes DEF Pending
<1> HIDE DEF md, nx
<1>9. /\ \A q \in Runs : q # r => /\ session'[q] = session[q] /\ waiting'[q] = waiting[q]
                                  /\ rounds'[q] = rounds[q]
      /\ session'[r].state # "none"
      /\ \/ /\ waiting'[r] = 0 /\ rounds'[r] = rounds[r]
            /\ session'[r].state \in Active => session'[r].iteration = md.iteration
         \/ /\ rounds'[r] + waiting'[r] <= rounds[r] + 1 /\ rounds'[r] >= rounds[r]
            /\ waiting'[r] \in Nat /\ rounds'[r] \in Nat
            /\ md.iteration < MaxIterations
            /\ session'[r].state \in Active => session'[r].iteration = md.iteration + 1
  <2>1. CASE (\E o : Finish(r, md, o)) /\ rounds' = rounds
    <3>1. /\ \A q \in Runs : q # r => session'[q] = session[q] /\ waiting'[q] = waiting[q]
          /\ waiting'[r] = waiting[r] \/ waiting'[r] = 0
          /\ SameData(session'[r], md)
          /\ \/ session'[r].state = "finished"
             \/ session[r].state = "cancelling" /\ session'[r].state = "cancelling"
      BY <1>2, <2>1, FinishData, InLoopTypes
    <3> QED  BY <1>8, <2>1, <3>1 DEF SameData
  <2>2. CASE /\ ~IsLastIteration(md) /\ session' = Written(r, nx)
             /\ EmitNextIteration(r)
    <3>1. nx \in Sessions
      BY <1>6, <2>2
    <3>2. /\ \A q \in Runs : q # r => session'[q] = session[q]
          /\ SameData(session'[r], nx)
          /\ session'[r].state =
                IF session[r].state = "none" THEN "pending" ELSE session[r].state
      BY <2>2, <3>1, WrittenData, InLoopTypes
    <3>3. /\ session'[r].state # "none" /\ session'[r].iteration = md.iteration + 1
      BY <1>4, <1>7, <3>2 DEF SameData
    <3>4. rounds \in [Runs -> Nat] /\ waiting \in [Runs -> Nat]
      BY InLoopTypes DEF CountTypes
    <3>5. /\ \A q \in Runs : q # r => waiting'[q] = waiting[q] /\ rounds'[q] = rounds[q]
          /\ \/ waiting'[r] = 0 /\ rounds'[r] = rounds[r] + 1
             \/ waiting'[r] \in {0, 1} /\ rounds'[r] = rounds[r]
      BY <1>8, <2>2, <3>4 DEF EmitNextIteration
    <3>6. md.iteration < MaxIterations
      BY <1>4, <2>2, InLoopTypes DEF IsLastIteration
    <3>7. /\ rounds'[r] + waiting'[r] <= rounds[r] + 1 /\ rounds'[r] >= rounds[r]
          /\ waiting'[r] \in Nat /\ rounds'[r] \in Nat
      BY <1>8, <3>5
    <3> QED  BY <3>2, <3>3, <3>5, <3>6, <3>7
  <2> QED  BY <1>5, <2>1, <2>2
<1>10. RoundInv(r)'
  <2>1. ~Reading(r)' /\ Pending(r)' = waiting'[r] /\ arrivals'[r] = arrivals[r]
    <3>1. ~Reading(r)'
      BY <1>2, <1>8 DEF Reading
    <3>2. waiting'[r] \in Nat
      BY <1>8, <1>9
    <3> QED  BY <1>2, <3>1, <3>2 DEF Pending
  <2>2. OneToken(r)'
    <3>1. waiting'[r] \in Nat
      BY <1>8, <1>9
    <3> QED  BY <1>3, <1>8, <1>9, <2>1, <3>1 DEF OneToken
  <2>3. ASSUME r \notin lost' PROVE Counted(r)'
    <3>1. rounds[r] <= md.iteration
      BY <1>2, <1>7, <2>3
    <3> QED  BY <1>3, <1>4, <1>8, <1>9, <2>1, <3>1, InLoopTypes DEF Counted
  <2> QED  BY <2>2, <2>3 DEF RoundInv
<1>11. ASSUME NEW q \in Runs, q # r PROVE RoundInv(q)'
  <2>1. RunRests(q)
    BY <1>2, <1>9, <1>11 DEF RunRests, SessionRests
  <2> QED  BY <1>3, <2>1, KeepRound, InLoopTypes DEF InLoop
<1> QED  BY <1>3, <1>10, <1>11

\* The executor, cancellations and the terminator move states only.
LEMMA RoundsMoved ==
    ASSUME InLoop, NEW r \in Runs,
           \/ StartSession(r) \/ CancelSession(r) \/ Terminate(r)
           \/ CancelRun(r) \/ DrainAgain(r)
    PROVE  LoopQueue' /\ \A q \in Runs : RoundInv(q)'
<1>1. /\ UNCHANGED <<hook, rounds, arrivals, lost, pass>>
      /\ waiting' = waiting \/ waiting' = [waiting EXCEPT ![r] = 0]
      /\ \/ session' = session
         \/ \E s \in Active \cup {"finished"} :
               session[r].state \in Active /\ session' = [session EXCEPT ![r].state = s]
  <2>1. CASE StartSession(r)
    BY <2>1 DEF StartSession, Active, OpenStates, histVars, queueVars
  <2>2. CASE CancelSession(r)
    BY <2>2 DEF CancelSession, Active, askVars, histVars, queueVars
  <2>3. CASE Terminate(r)
    BY <2>3 DEF Terminate, Active, histVars, queueVars
  <2>4. CASE CancelRun(r) \/ DrainAgain(r)
    BY <2>4 DEF CancelRun, DrainAgain, Drain, Active, askVars, histVars
  <2> QED  BY <2>1, <2>2, <2>3, <2>4
<1>2. /\ LoopQueue'
      /\ \A q : Here(q)' => Here(q)
      /\ \A q : Holds(q)' => Holds(q) /\ pass'.seen = pass.seen
  <2>1. CASE Drain(r)
    BY <2>1, LoopDrain, InLoopTypes DEF InLoop
  <2>2. CASE UNCHANGED queueVars
    BY <2>2, LoopBeside DEF InLoop
  <2> QED  BY <2>1, <2>2 DEF StartSession, CancelSession, Terminate, CancelRun, DrainAgain
<1>3. ASSUME NEW q \in Runs PROVE RunRests(q)
  <2>1. waiting'[q] = waiting[q] \/ waiting'[q] = 0
    BY <1>1, InLoopTypes DEF CountTypes
  <2>2. SessionRests(q)
    <3>1. CASE session' = session
      BY <3>1 DEF SessionRests
    <3>2. ASSUME NEW s \in Active \cup {"finished"}, session[r].state \in Active,
                 session' = [session EXCEPT ![r].state = s]
          PROVE  SessionRests(q)
      <4>1. /\ \A p \in Runs : p # r => session'[p] = session[p]
            /\ SameData(session'[r], session[r]) /\ session'[r].state = s
        BY <3>2, StateWritten, InLoopTypes
      <4>2. s # "none"
        BY DEF Active, OpenStates
      <4> QED  BY <3>2, <4>1, <4>2 DEF SessionRests, SameData
    <3> QED  BY <1>1, <3>1, <3>2
  <2> QED  BY <1>1, <2>1, <2>2 DEF RunRests
<1>4. ASSUME NEW q \in Runs PROVE RoundInv(q)'
  BY <1>2, <1>3, KeepRound, InLoopTypes DEF InLoop
<1> QED  BY <1>2, <1>4

\* The timeout ends the session, or saves it over its cancellation.
LEMMA RoundsTimeout ==
    ASSUME InLoop, NEW r \in Runs, LoopTimeout(r)
    PROVE  LoopQueue' /\ \A q \in Runs : RoundInv(q)'
<1>1. /\ UNCHANGED <<rounds, arrivals>> /\ UNCHANGED queueVars
      /\ hook["timeout"][r] # NoRead
      /\ hook' = [hook EXCEPT !["timeout"][r] = NoRead]
  BY DEF LoopTimeout, HookDone, histVars
<1>2. /\ LoopQueue'
      /\ \A q : Here(q)' => Here(q)
      /\ \A q : Holds(q)' => Holds(q) /\ pass'.seen = pass.seen
  BY <1>1, LoopBeside DEF InLoop
<1>3. "timeout" \in Hooks /\ "next" \in Hooks
  BY DEF Hooks
<1>4. /\ hook["timeout"][r] \in Sessions /\ hook["timeout"][r].state \in OpenStates
      /\ session[r].state # "none"
      /\ session \in [Runs -> Sessions] /\ waiting \in [Runs -> Nat]
  BY <1>1, <1>3, InLoopTypes DEF InLoop, RowTypes, ReadInv, CountTypes
<1>5. \A q \in Runs : hook'["next"][q] = hook["next"][q]
  BY <1>1, <1>3, InLoopTypes, Constants, HookRows
<1>6. ASSUME NEW q \in Runs PROVE RunRests(q)
  <2>1. /\ waiting'[q] = waiting[q] \/ waiting'[q] = 0
        /\ lost \subseteq lost'
        /\ SessionRests(q)
    <3>1. CASE session[r].state = "cancelling"
      <4>1. session' = [session EXCEPT ![r] = hook["timeout"][r]] /\ waiting' = waiting
            /\ lost' = lost \cup {r}
        BY <3>1 DEF LoopTimeout, SaveRead, askVars, OpenStates
      <4>2. session'[r].state # "none" /\ (q # r => session'[q] = session[q])
        BY <1>4, <4>1 DEF OpenStates
      <4> QED  BY <4>1, <4>2 DEF SessionRests
    <3>2. CASE session[r].state # "cancelling"
      <4>1. Finish(r, hook["timeout"][r], "timeout") /\ lost' = lost
        BY <3>2 DEF LoopTimeout
      <4>2. /\ \A p \in Runs : p # r => session'[p] = session[p] /\ waiting'[p] = waiting[p]
            /\ waiting'[r] = waiting[r] \/ waiting'[r] = 0
            /\ session'[r].state = "finished"
        BY <1>4, <3>2, <4>1, FinishData, InLoopTypes
      <4> QED  BY <1>4, <4>1, <4>2 DEF SessionRests
    <3> QED  BY <3>1, <3>2
  <2> QED  BY <1>1, <1>5, <2>1 DEF RunRests
<1>7. ASSUME NEW q \in Runs PROVE RoundInv(q)'
  BY <1>2, <1>6, KeepRound, InLoopTypes DEF InLoop
<1> QED  BY <1>2, <1>7

\* A hook takes its request along, with the count it has read.
LEMMA RoundsReadForHook ==
    ASSUME InLoop, NEW h \in Hooks, NEW r \in Runs, ReadForHook(h, r)
    PROVE  LoopQueue' /\ \A q \in Runs : RoundInv(q)'
<1>1. /\ UNCHANGED <<session, rounds, arrivals, lost, pass>> /\ UNCHANGED queueVars
      /\ hook[h][r] = NoRead
      /\ hook' = IF session[r].state \in OpenStates
                 THEN [hook EXCEPT ![h][r] = session[r]] ELSE hook
  BY DEF ReadForHook, histVars, queueVars
<1>2. /\ LoopQueue'
      /\ \A q : Here(q)' <=> Here(q)
      /\ \A q : Holds(q)' => Holds(q) /\ pass'.seen = pass.seen
  BY <1>1, LoopBeside DEF InLoop
<1>3. "timeout" \in Hooks /\ "next" \in Hooks
  BY DEF Hooks
<1>4. session[r] \in Sessions /\ waiting \in [Runs -> Nat]
  BY InLoopTypes DEF RowTypes, CountTypes
<1>5. /\ hook'[h][r] = IF session[r].state \in OpenStates THEN session[r] ELSE hook[h][r]
      /\ \A g \in Hooks, q \in Runs : ~(g = h /\ q = r) => hook'[g][q] = hook[g][q]
  <2>1. CASE session[r].state \in OpenStates
    <3>1. PICK x \in Sessions : x = session[r]
      BY <1>4
    <3>2. RowTypes /\ hook' = [hook EXCEPT ![h][r] = x]
      BY <1>1, <2>1, <3>1, InLoopTypes
    <3>3. /\ hook' \in [Hooks -> [Runs -> Sessions]]
          /\ hook'[h][r] = x
          /\ \A g \in Hooks, q \in Runs : ~(g = h /\ q = r) => hook'[g][q] = hook[g][q]
      BY <3>2, HookRows
    <3> QED  BY <2>1, <3>1, <3>3
  <2>2. CASE session[r].state \notin OpenStates
    BY <1>1, <2>2
  <2> QED  BY <2>1, <2>2
<1>6. ASSUME NEW q \in Runs, h # "next" \/ q # r PROVE RoundInv(q)'
  <2>1. hook'["next"][q] = hook["next"][q]
    BY <1>3, <1>5, <1>6
  <2>2. waiting'[q] = waiting[q]
    <3>1. waiting' = IF h = "next" THEN [waiting EXCEPT ![r] = @ - 1] ELSE waiting
      BY DEF ReadForHook
    <3> QED  BY <1>4, <1>6, <3>1
  <2>3. RunRests(q)
    BY <1>1, <2>1, <2>2 DEF RunRests, SessionRests
  <2> QED  BY <1>2, <2>3, KeepRound, InLoopTypes DEF InLoop
<1>7. ASSUME h = "next" PROVE RoundInv(r)'
  <2>1. waiting[r] > 0 /\ waiting'[r] = waiting[r] - 1
    <3>1. waiting[r] > 0 /\ waiting' = [waiting EXCEPT ![r] = @ - 1]
      BY <1>7 DEF ReadForHook, Due
    <3> QED  BY <1>4, <3>1
  <2>2. ~Reading(r)
    BY <1>1, <1>7 DEF Reading
  <2>3. Reading(r)' => session[r].state \in OpenStates /\ hook'["next"][r] = session[r]
    BY <1>1, <1>5, <1>7 DEF Reading
  <2>4. Pending(r) = waiting[r] /\ Pending(r)' <= Pending(r) /\ Pending(r)' \in Nat
    BY <2>1, <2>2, InLoopTypes DEF Pending
  <2>5. UNCHANGED <<session, rounds, arrivals, lost, pass>>
    BY <1>1
  <2>6. RoundInv(r) /\ rounds[r] \in Nat /\ arrivals[r] \in Nat /\ waiting[r] \in Nat
    BY InLoopTypes
  <2>7. OneToken(r)'
    BY <1>2, <2>4, <2>5, <2>6 DEF RoundInv, OneToken
  <2>8. ASSUME r \notin lost PROVE Counted(r)'
    <3>1. Counted(r)
      BY <2>6, <2>8 DEF RoundInv
    <3>2. session[r].iteration \in Nat
      BY <1>4 DEF Sessions
    <3>3. Reading(r)' => rounds[r] + 1 <= hook'["next"][r].iteration
      BY <2>1, <2>3, <2>4, <2>6, <3>1, <3>2 DEF Counted, Active
    <3>4. /\ rounds[r] + Pending(r)' <= MaxIterations
          /\ session[r].state \in Active => rounds[r] + Pending(r)' <= session[r].iteration
      BY <2>4, <2>6, <3>1, <3>2, InLoopTypes DEF Counted
    <3>5. Holds(r)' /\ pass'.seen.state \in Active => rounds[r] <= pass'.seen.iteration
      BY <1>2, <3>1 DEF Counted
    <3> QED  BY <2>5, <3>3, <3>4, <3>5 DEF Counted
  <2> QED  BY <2>5, <2>7, <2>8 DEF RoundInv
<1>8. ASSUME NEW q \in Runs PROVE RoundInv(q)'
  BY <1>6, <1>7
<1> QED  BY <1>2, <1>8

\* The hook sends off the round that its request stood for.
LEMMA RoundsNext ==
    ASSUME InLoop, NEW r \in Runs, NextIteration(r)
    PROVE  LoopQueue' /\ \A q \in Runs : RoundInv(q)'
<1>1. /\ UNCHANGED <<waiting, arrivals, pass>> /\ UNCHANGED queueVars
      /\ Reading(r)
      /\ hook' = [hook EXCEPT !["next"][r] = NoRead]
      /\ rounds' = [rounds EXCEPT ![r] = @ + 1]
  BY DEF NextIteration, HookDone, Reading, histVars, askVars, queueVars
<1>2. /\ LoopQueue'
      /\ \A q : Here(q)' <=> Here(q)
      /\ \A q : Holds(q)' => Holds(q) /\ pass'.seen = pass.seen
  BY <1>1, LoopBeside DEF InLoop
<1>3. "next" \in Hooks
  BY DEF Hooks
<1>4. /\ hook["next"][r] \in Sessions /\ hook["next"][r].state \in OpenStates
      /\ session[r].state # "none"
      /\ session \in [Runs -> Sessions] /\ rounds \in [Runs -> Nat]
  BY <1>1, <1>3, InLoopTypes DEF InLoop, RowTypes, ReadInv, CountTypes, Reading
<1>5. hook'["next"][r] = NoRead
      /\ \A q \in Runs : q # r => hook'["next"][q] = hook["next"][q]
  <2>1. RowTypes /\ NoRead \in Sessions /\ hook' = [hook EXCEPT !["next"][r] = NoRead]
    BY <1>1, InLoopTypes, Constants
  <2>2. /\ hook' \in [Hooks -> [Runs -> Sessions]]
        /\ hook'["next"][r] = NoRead
        /\ \A g \in Hooks, q \in Runs : ~(g = "next" /\ q = r) => hook'[g][q] = hook[g][q]
    BY <1>3, <2>1, HookRows
  <2> QED  BY <1>3, <2>2
<1>6. /\ lost \subseteq lost'
      /\ \A q \in Runs : q # r => session'[q] = session[q]
      /\ \/ session'[r].state = "finished"
         \/ session'[r] = hook["next"][r]
  <2>1. CASE session[r].state = "finished"
    <3>1. session' = Written(r, hook["next"][r]) /\ lost' = lost
      BY <2>1 DEF NextIteration
    <3> QED  BY <1>4, <2>1, <3>1, WrittenData, InLoopTypes
  <2>2. CASE session[r].state # "finished"
    <3>1. session' = [session EXCEPT ![r] = hook["next"][r]] /\ lost \subseteq lost'
      BY <2>2 DEF NextIteration, SaveRead
    <3> QED  BY <1>4, <3>1
  <2> QED  BY <2>1, <2>2
<1>7. RoundInv(r)'
  <2>1. RoundInv(r) /\ rounds[r] \in Nat /\ arrivals[r] \in Nat /\ waiting[r] \in Nat
    BY InLoopTypes
  <2>2. Pending(r) = waiting[r] + 1
    BY <1>1 DEF Pending
  <2>3. waiting[r] = 0 /\ ~Here(r) /\ arrivals[r] = rounds[r] + 1
    BY <2>1, <2>2 DEF RoundInv, OneToken
  <2>4. ~Reading(r)' /\ Pending(r)' = 0 /\ rounds'[r] = rounds[r] + 1
    BY <1>1, <1>4, <1>5, <2>3 DEF Pending, Reading
  <2>5. session'[r].state # "none" /\ ~Here(r)' /\ ~Holds(r)'
    BY <1>2, <1>4, <1>6, <2>3 DEF OpenStates, Here
  <2>6. OneToken(r)'
    BY <1>1, <2>1, <2>3, <2>4, <2>5 DEF OneToken
  <2>7. ASSUME r \notin lost' PROVE Counted(r)'
    <3>1. /\ rounds[r] + 1 <= hook["next"][r].iteration
          /\ rounds[r] + 1 <= MaxIterations
      BY <1>1, <1>6, <2>1, <2>2, <2>3, <2>7 DEF RoundInv, Counted
    <3>2. session'[r].state \in Active => rounds[r] + 1 <= session'[r].iteration
      BY <1>6, <3>1 DEF Active, OpenStates
    <3> QED  BY <2>1, <2>4, <2>5, <3>1, <3>2 DEF Counted
  <2> QED  BY <2>6, <2>7 DEF RoundInv
<1>8. ASSUME NEW q \in Runs, q # r PROVE RoundInv(q)'
  <2>1. RunRests(q)
    BY <1>1, <1>4, <1>5, <1>6, <1>8 DEF RunRests, SessionRests
  <2> QED  BY <1>2, <2>1, KeepRound, InLoopTypes DEF InLoop
<1> QED  BY <1>2, <1>7, <1>8

\* A merge never asks for a round, and its rounds are none.
LEMMA NoRoundsNext ==
    ASSUME TypeOK, ReadInv, NoRounds, [Next]_vars PROVE NoRounds'
<1>1. kind' = kind
  <2>1. CASE Next
    BY <2>1, StepsAreOfKinds, TypeParts DEF StepKinds
  <2>2. CASE UNCHANGED vars
    BY <2>2 DEF vars, nodeVars
  <2> QED  BY <2>1, <2>2
<1>2. SUFFICES ASSUME kind = "merge", NEW q \in Runs
               PROVE  rounds'[q] = 0 /\ waiting'[q] = 0 /\ hook'["next"][q] = NoRead
  BY <1>1 DEF NoRounds
<1>3. /\ \A r \in Runs : rounds[r] = 0 /\ waiting[r] = 0 /\ hook["next"][r] = NoRead
      /\ waiting \in [Runs -> Nat] /\ RowTypes /\ CountTypes /\ QueueTypes
  BY <1>2, TypeParts DEF NoRounds, CountTypes
<1>4. CASE UNCHANGED <<rounds, hook>> /\ (waiting' = waiting
             \/ \E r : waiting' = [waiting EXCEPT ![r] = 0])
  BY <1>3, <1>4
<1>5. CASE ReadItem \/ SkipItem \/ DeferItem
  BY <1>4, <1>5 DEF ReadItem, SkipItem, DeferItem, askVars
<1>6. CASE MergeItem
  <2>1. UNCHANGED <<rounds, hook>>
    BY <1>6 DEF MergeItem
  <2>2. (\E md : KeepOpen(pass.item.run, md)) \/ \E md, o : Finish(pass.item.run, md, o)
    BY <1>6 DEF MergeItem
  <2>3. waiting' = waiting \/ waiting' = [waiting EXCEPT ![pass.item.run] = 0]
    BY <2>2 DEF Finish, KeepOpen, askVars
  <2> QED  BY <1>4, <2>1, <2>3
<1>7. ~StartLoop /\ ~HandleFeedback
  BY <1>2 DEF StartLoop, HandleFeedback, Takes
<1>8. CASE \E s \in Sources : RemoveEdge(s)
  BY <1>4, <1>8 DEF RemoveEdge, askVars
<1>9. ASSUME NEW r \in Runs, ArriveAtLoop(r) \/ \E s \in Sources : ArriveAtMerge(r, s)
      PROVE  rounds'[q] = 0 /\ waiting'[q] = 0 /\ hook'["next"][q] = NoRead
  BY <1>4, <1>9 DEF ArriveAtLoop, ArriveAtMerge, askVars
<1>10. ASSUME NEW r \in Runs,
              \/ StartSession(r) \/ CancelSession(r) \/ Terminate(r)
              \/ CancelRun(r) \/ DrainAgain(r)
       PROVE  rounds'[q] = 0 /\ waiting'[q] = 0 /\ hook'["next"][q] = NoRead
  BY <1>4, <1>10 DEF StartSession, CancelSession, Terminate, CancelRun, DrainAgain, Drain,
                     askVars
<1>11. ASSUME NEW r \in Runs, ReadForHook("timeout", r) \/ MergeTimeout(r)
       PROVE  rounds'[q] = 0 /\ waiting'[q] = 0 /\ hook'["next"][q] = NoRead
  <2>1. waiting' = waiting /\ rounds' = rounds
    BY <1>11 DEF ReadForHook, MergeTimeout
  <2>2. \E x \in Sessions : hook' = hook \/ hook' = [hook EXCEPT !["timeout"][r] = x]
    <3>1. session[r] \in Sessions
      BY <1>3 DEF RowTypes
    <3> QED  BY <1>11, <3>1, Constants DEF ReadForHook, MergeTimeout, HookDone
  <2>3. hook'["next"][q] = hook["next"][q]
    <3>1. "timeout" \in Hooks /\ "next" \in Hooks
      BY DEF Hooks
    <3> QED  BY <1>3, <2>2, <3>1, HookRows
  <2> QED  BY <1>3, <2>1, <2>3
<1>12. \A r \in Runs : ~ReadForHook("next", r) /\ ~LoopTimeout(r) /\ ~NextIteration(r)
  BY <1>2, <1>3 DEF ReadForHook, Due, LoopTimeout, NextIteration
<1>13. CASE UNCHANGED vars
  BY <1>4, <1>13 DEF vars, askVars
<1> QED  BY <1>5, <1>6, <1>7, <1>8, <1>9, <1>10, <1>11, <1>12, <1>13 DEF Next, Hooks

\* Every action of a loop keeps its count.
LEMMA LoopNext ==
    ASSUME Returns <= 1, TypeOK, ReadInv, LoopInv, [Next]_vars PROVE LoopInv'
<1>1. kind' = kind
  <2>1. CASE Next
    BY <2>1, StepsAreOfKinds, TypeParts DEF StepKinds
  <2>2. CASE UNCHANGED vars
    BY <2>2 DEF vars, nodeVars
  <2> QED  BY <2>1, <2>2
<1> DEFINE Goal == LoopQueue' /\ \A r \in Runs : RoundInv(r)'
<1>2. SUFFICES ASSUME kind = "loop" PROVE Goal
  BY <1>1 DEF LoopInv
<1>3. InLoop
  BY <1>2 DEF InLoop, LoopInv
<1> HIDE DEF Goal
<1>4. CASE ReadItem \/ SkipItem \/ DeferItem
  BY <1>3, <1>4, RoundsPutBack DEF Goal
<1>5. CASE StartLoop
  BY <1>3, <1>5, RoundsStart DEF Goal
<1>6. CASE HandleFeedback
  BY <1>3, <1>6, RoundsFeedback DEF Goal
<1>7. ~MergeItem /\ (\A s \in Sources : ~RemoveEdge(s))
      /\ \A r \in Runs : ~MergeTimeout(r) /\ \A s \in Sources : ~ArriveAtMerge(r, s)
  BY <1>2 DEF MergeItem, Takes, RemoveEdge, MergeTimeout, ArriveAtMerge
<1>8. ASSUME NEW r \in Runs, ArriveAtLoop(r) PROVE Goal
  BY <1>3, <1>8, RoundsArrive DEF Goal
<1>9. ASSUME NEW r \in Runs,
             \/ StartSession(r) \/ CancelSession(r) \/ Terminate(r)
             \/ CancelRun(r) \/ DrainAgain(r)
      PROVE  Goal
  BY <1>3, <1>9, RoundsMoved DEF Goal
<1>10. ASSUME NEW r \in Runs, NEW h \in Hooks, ReadForHook(h, r) PROVE Goal
  BY <1>3, <1>10, RoundsReadForHook DEF Goal
<1>11. ASSUME NEW r \in Runs, LoopTimeout(r) PROVE Goal
  BY <1>3, <1>11, RoundsTimeout DEF Goal
<1>12. ASSUME NEW r \in Runs, NextIteration(r) PROVE Goal
  BY <1>3, <1>12, RoundsNext DEF Goal
<1>13. CASE UNCHANGED vars
  <2>1. /\ UNCHANGED <<session, waiting, hook, rounds, arrivals, lost>>
        /\ UNCHANGED queueVars
    BY <1>13 DEF vars, askVars, histVars, queueVars
  <2>2. \A r \in Runs : RunRests(r)
    BY <2>1 DEF RunRests, SessionRests
  <2>3. /\ LoopQueue'
        /\ \A q : Here(q)' <=> Here(q)
        /\ \A q : Holds(q)' => Holds(q) /\ pass'.seen = pass.seen
    BY <1>3, <2>1, LoopBeside DEF InLoop
  <2>4. ASSUME NEW r \in Runs PROVE RoundInv(r)'
    BY <1>3, <2>2, <2>3, KeepRound DEF InLoop
  <2> QED  BY <2>3, <2>4 DEF Goal
<1> QED  BY <1>4, <1>5, <1>6, <1>7, <1>8, <1>9, <1>10, <1>11, <1>12, <1>13 DEF Next

(***************************************************************************)
(* A round of the body brings back at most one item: then the body is sent *)
(* off no more often than the limit says, whatever delays, timeouts and    *)
(* cancellations do in between.  At any time one token at most can bring   *)
(* on a round, and whoever holds it has read a count that covers all the   *)
(* rounds before.                                                          *)
(***************************************************************************)
THEOREM RoundsKeepToTheirLimit == Returns <= 1 /\ Spec => []RoundsWithinLimit
<1>1. SUFFICES ASSUME Returns <= 1 PROVE Spec => []RoundsWithinLimit
  OBVIOUS
<1>2. Init => LoopInv /\ NoRounds
  <2>1. SUFFICES ASSUME Init PROVE LoopInv /\ NoRounds
    OBVIOUS
  <2>2. /\ queue = <<>> /\ pass = NoPass /\ lost = {}
        /\ session = [r \in Runs |-> NoSession]
        /\ hook = [h \in Hooks |-> [r \in Runs |-> NoRead]]
        /\ waiting = [r \in Runs |-> 0]
        /\ rounds = [r \in Runs |-> 0] /\ arrivals = [r \in Runs |-> 0]
    BY <2>1 DEF Init
  <2>3. ItemsOf(queue) = {} /\ ~pass.on
    BY <2>2, Constants DEF ItemsOf
  <2>4. LoopQueue
    BY <2>2, <2>3 DEF LoopQueue, Distinct
  <2>5. ASSUME NEW r \in Runs PROVE RoundInv(r) /\ hook["next"][r] = NoRead
    <3>1. ~Reading(r) /\ Pending(r) = 0 /\ ~Here(r) /\ ~Holds(r) /\ hook["next"][r] = NoRead
      BY <2>2, <2>3 DEF Reading, Pending, Here, Holds, IsQueued, Hooks
    <3>2. NoSession.state = "none" /\ "none" \notin Active
      BY DEF NoSession, Active, OpenStates
    <3> QED  BY <2>2, <3>1, <3>2, SelfManagedAssumption DEF RoundInv, OneToken, Counted
  <2> QED  BY <2>2, <2>4, <2>5 DEF LoopInv, NoRounds
<1>3. TypeOK /\ SessionInv /\ LoopInv /\ NoRounds /\ [Next]_vars => LoopInv' /\ NoRounds'
  BY <1>1, LoopNext, NoRoundsNext DEF SessionInv
<1>4. TypeOK /\ LoopInv /\ NoRounds => RoundsWithinLimit
  <2>1. SUFFICES ASSUME TypeOK, LoopInv, NoRounds, NEW r \in Runs \ lost
                 PROVE  rounds[r] <= MaxIterations
    BY DEF RoundsWithinLimit
  <2>2. rounds[r] \in Nat /\ waiting[r] \in Nat /\ MaxIterations \in Nat
    BY <2>1, CountsOf, SelfManagedAssumption
  <2>3. kind = "loop" \/ kind = "merge"
    BY <2>1, SelfManagedAssumption DEF TypeOK
  <2>4. CASE kind = "loop"
    BY <2>1, <2>2, <2>4 DEF LoopInv, RoundInv, Counted, Pending
  <2>5. CASE kind = "merge"
    BY <2>1, <2>2, <2>5 DEF NoRounds
  <2> QED  BY <2>3, <2>4, <2>5
<1> QED  BY <1>2, <1>3, <1>4, NodeTypeCorrect, InvHolds, PTL DEF Spec

-----------------------------------------------------------------------------
(* The inputs of a merge.  Nobody but the pass writes its metadata, so     *)
(* what the pass has read of them is still true when it writes.            *)

SourcesOf(r) == {x.source : x \in {y \in ItemsOf(queue) : y.run = r}}

(* Only a cancellation takes the item of a pass away. *)
ItemStays == pass.on /\ run[pass.item.run] = "started" => StillQueued /\ pass.live

SameInputs(x, y) == x.need = y.need /\ x.got = y.got /\ x.stopped = y.stopped

Collected(r) ==
    /\ Holds(r) =>
          /\ session[r].state # "none" => SameInputs(session[r], pass.seen)
          /\ pass.seen.state = "finished" => session[r].state \notin OpenStates
    /\ session[r].state = "none" /\ run[r] = "started" => SourcesOf(r) = delivered[r]
    /\ session[r].state \in OpenStates =>
          /\ ~session[r].stopped
          /\ ~(session[r].need \subseteq session[r].got)
          /\ run[r] = "started" =>
                session[r].got \cup (SourcesOf(r) \cap session[r].need)
                    = delivered[r] \cap session[r].need

CollectInv ==
    /\ ItemStays
    /\ kind = "merge" => \A r \in Runs \ lost : Collected(r)

(* What the steps of a merge start from. *)
InMerge ==
    /\ kind = "merge" /\ TypeOK /\ ReadInv /\ NoRounds
    /\ ItemStays /\ \A r \in Runs \ lost : Collected(r)

-----------------------------------------------------------------------------
\* The property says the same of the positions in the queue.
LEMMA QueuedSources ==
    ASSUME NEW r
    PROVE  {queue[i].source : i \in {j \in 1 .. Len(queue) : queue[j].run = r}} = SourcesOf(r)
  BY DEF SourcesOf, ItemsOf

\* What a step leaves of the item that a pass is at.
LEMMA ItemStaysNext ==
    ASSUME TypeOK, ItemStays, [Next]_vars PROVE ItemStays'
<1>0. QueueTypes /\ queue \in Seq(Items) /\ run \in [Runs -> {"started", "cancelling"}]
  BY TypeParts DEF TypeOK
<1>1. CASE ReadItem
  <2>1. /\ queue # <<>> /\ queue' = queue /\ run' = run
        /\ pass' = [on |-> TRUE, item |-> Head(queue), seen |-> session[Head(queue).run],
                    live |-> run[Head(queue).run] = "started"]
    BY <1>1 DEF ReadItem
  <2>2. pass'.item = Head(queue) /\ pass'.live = (run[Head(queue).run] = "started")
    BY <2>1
  <2> QED  BY <2>1, <2>2 DEF ItemStays, StillQueued
<1>2. CASE SkipItem \/ MergeItem \/ DeferItem \/ StartLoop \/ HandleFeedback
  <2>1. pass' = NoPass
    BY <1>2 DEF SkipItem, MergeItem, DeferItem, StartLoop, HandleFeedback
  <2> QED  BY <2>1, Constants DEF ItemStays
<1>3. ASSUME NEW r \in Runs, ArriveAtLoop(r) \/ \E s \in Sources : ArriveAtMerge(r, s)
      PROVE  ItemStays'
  <2>1. /\ pass' = pass /\ run' = run
        /\ \E s \in Sources \cup {"body"} : queue' = Append(queue, [run |-> r, source |-> s])
    BY <1>3 DEF ArriveAtLoop, ArriveAtMerge
  <2>2. PICK x \in Items : queue' = Append(queue, x)
    BY <2>1 DEF Items
  <2>3. queue' # <<>> /\ (queue # <<>> => Head(queue') = Head(queue))
    BY <1>0, <2>2, AppendItems
  <2> QED  BY <2>1, <2>3 DEF ItemStays, StillQueued
<1>4. ASSUME NEW r \in Runs, CancelRun(r) \/ DrainAgain(r) PROVE ItemStays'
  <2> DEFINE ds == {i \in Items : i.run = r}
  <2>1. /\ pass' = pass /\ queue' = Without(queue, ds)
        /\ run'[r] = "cancelling" /\ \A q \in Runs : q # r => run'[q] = run[q]
    BY <1>0, <1>4 DEF CancelRun, DrainAgain, Drain
  <2>2. SUFFICES ASSUME pass.on, run'[pass.item.run] = "started"
                 PROVE  queue' # <<>> /\ Head(queue') = pass.item /\ pass.live
    BY <2>1 DEF ItemStays, StillQueued
  <2>3. pass.item.run \in Runs /\ pass.item.run # r
    BY <1>0, <2>1, <2>2, PassHolds
  <2>4. queue # <<>> /\ Head(queue) = pass.item /\ pass.live
    BY <2>1, <2>2, <2>3 DEF ItemStays, StillQueued
  <2>5. Head(queue) \notin ds
    BY <2>3, <2>4
  <2> HIDE DEF ds
  <2>6. queue # <<>> /\ Head(queue) \notin ds =>
           Without(queue, ds) # <<>> /\ Head(Without(queue, ds)) = Head(queue)
    BY <1>0, WithoutRows
  <2> QED  BY <2>1, <2>4, <2>5, <2>6
<1>5. CASE UNCHANGED <<run, queue, pass>>
  BY <1>5 DEF ItemStays, StillQueued
<1>6. CASE \E s \in Sources : RemoveEdge(s)
  BY <1>5, <1>6 DEF RemoveEdge, queueVars
<1>7. ASSUME NEW r \in Runs,
             \/ StartSession(r) \/ \E h \in Hooks : ReadForHook(h, r)
             \/ MergeTimeout(r) \/ LoopTimeout(r) \/ NextIteration(r)
             \/ CancelSession(r) \/ Terminate(r)
      PROVE  ItemStays'
  BY <1>5, <1>7 DEF StartSession, ReadForHook, MergeTimeout, LoopTimeout, NextIteration,
                    CancelSession, Terminate, queueVars
<1>8. CASE UNCHANGED vars
  BY <1>5, <1>8 DEF vars, queueVars
<1> QED  BY <1>1, <1>2, <1>3, <1>4, <1>6, <1>7, <1>8 DEF Next

(* No input of the run moves, and its session is not opened. *)
InputsRest(r) ==
    /\ run'[r] = "started" => run[r] = "started" /\ SourcesOf(r)' = SourcesOf(r)
    /\ delivered'[r] = delivered[r]
    /\ SameInputs(session'[r], session[r])
    /\ session'[r].state = "none" <=> session[r].state = "none"
    /\ session'[r].state \in OpenStates => session[r].state \in OpenStates

\* Then nothing changes for the inputs.
LEMMA KeepCollected ==
    ASSUME NEW r, Collected(r), InputsRest(r),
           \/ ~Holds(r)'
           \/ Holds(r) /\ pass'.seen = pass.seen
           \/ session'[r] = session[r] /\ pass'.seen = session[r]
    PROVE  Collected(r)'
<1>1. ASSUME Holds(r)'
      PROVE  /\ session'[r].state # "none" => SameInputs(session'[r], pass'.seen)
             /\ pass'.seen.state = "finished" => session'[r].state \notin OpenStates
  BY <1>1 DEF Collected, InputsRest, SameInputs, OpenStates
<1>2. session'[r].state = "none" /\ run'[r] = "started" => SourcesOf(r)' = delivered'[r]
  BY DEF Collected, InputsRest
<1>3. session'[r].state \in OpenStates =>
         /\ ~session'[r].stopped
         /\ ~(session'[r].need \subseteq session'[r].got)
         /\ run'[r] = "started" =>
               session'[r].got \cup (SourcesOf(r)' \cap session'[r].need)
                   = delivered'[r] \cap session'[r].need
  BY DEF Collected, InputsRest, SameInputs
<1> QED  BY <1>1, <1>2, <1>3 DEF Collected

\* An ended session has nothing left to collect.
LEMMA EndedCollects ==
    ASSUME NEW r, ~Holds(r)', session'[r].state \notin OpenStates, session'[r].state # "none"
    PROVE  Collected(r)'
  BY DEF Collected

\* What a pass that is done leaves of the sources of the runs.
LEMMA MergeDequeue ==
    ASSUME QueueTypes, ItemStays, pass.on, pass' = NoPass, queue' = Dequeued
    PROVE  /\ \A q : ~Holds(q)'
           /\ \A q : q # pass.item.run => SourcesOf(q)' = SourcesOf(q)
           /\ \A r : r = pass.item.run /\ run[r] = "started" =>
                 SourcesOf(r) = SourcesOf(r)' \cup {pass.item.source}
<1>1. ~pass'.on
  BY Constants
<1>2. /\ ItemsOf(queue') \subseteq ItemsOf(queue)
      /\ ItemsOf(queue) \subseteq ItemsOf(queue') \cup {pass.item}
      /\ StillQueued => pass.item \in ItemsOf(queue)
  BY DequeuedItems
<1>3. \A q : q # pass.item.run => SourcesOf(q)' = SourcesOf(q)
  BY <1>2 DEF SourcesOf
<1>4. ASSUME NEW r, r = pass.item.run, run[r] = "started"
      PROVE  SourcesOf(r) = SourcesOf(r)' \cup {pass.item.source}
  <2>1. pass.item \in ItemsOf(queue)
    BY <1>2, <1>4 DEF ItemStays
  <2>2. ItemsOf(queue) = ItemsOf(queue') \cup {pass.item}
    BY <1>2, <2>1
  <2> QED  BY <1>4, <2>2 DEF SourcesOf
<1> QED  BY <1>1, <1>3, <1>4 DEF Holds

\* The parts of what the steps start from.
LEMMA InMergeTypes ==
    ASSUME InMerge
    PROVE  /\ RowTypes /\ CountTypes /\ QueueTypes
           /\ \A r \in Runs \ lost : Collected(r)
  BY TypeParts DEF InMerge

\* A pass that records its input, in the metadata that it has read.
LEMMA CollectMerge ==
    ASSUME InMerge, MergeItem
    PROVE  \A r \in Runs \ lost' : Collected(r)'
<1>1. PICK r \in Runs : r = pass.item.run
  BY PassHolds, InMergeTypes DEF MergeItem, Takes
<1> DEFINE md == UpdateSource(FoundOrCreated, pass.item.source)
           st == [md EXCEPT !.stopped = TRUE]
           s  == pass.item.source
<1>2. /\ pass.on /\ pass.seen.state # "finished" /\ pass' = NoPass /\ queue' = Dequeued
      /\ pass.seen \in Sessions /\ edges \subseteq Sources
      /\ UNCHANGED <<run, delivered, lost>>
  <2>1. /\ pass.on /\ pass.seen.state # "finished" /\ pass' = NoPass /\ queue' = Dequeued
        /\ UNCHANGED <<run, delivered, lost>>
    BY DEF MergeItem, Takes, histVars
  <2> QED  BY <2>1, PassHolds, InMergeTypes DEF RowTypes
<1>3. /\ \A q : ~Holds(q)'
      /\ \A q : q # r => SourcesOf(q)' = SourcesOf(q)
      /\ run[r] = "started" => SourcesOf(r) = SourcesOf(r)' \cup {s}
  BY <1>1, <1>2, MergeDequeue, InMergeTypes DEF InMerge
<1>4. /\ pass.seen.state = "none" <=> session[r].state = "none"
      /\ session[r] \in Sessions
  BY <1>1, <1>2, InMergeTypes DEF InMerge, ReadInv, RowTypes
<1>5. /\ md \in Sessions /\ st \in Sessions
      /\ session[r].state = "none" => md.need = edges /\ md.got = {s} \cap edges /\ ~md.stopped
      /\ session[r].state # "none" =>
            /\ md.need = pass.seen.need /\ md.stopped = pass.seen.stopped
            /\ md.got = pass.seen.got \cup ({s} \cap pass.seen.need)
  <2>1. \A x \in Sessions :
           /\ UpdateSource(x, s) \in Sessions
           /\ UpdateSource(x, s).need = x.need /\ UpdateSource(x, s).stopped = x.stopped
           /\ UpdateSource(x, s).got = x.got \cup ({s} \cap x.need)
    BY DEF UpdateSource, Sessions
  <2>2. \A x \in Sessions : [x EXCEPT !.stopped = TRUE] \in Sessions
    BY DEF Sessions
  <2>3. LET n == [NoSession EXCEPT !.need = edges]
        IN  n \in Sessions /\ n.need = edges /\ n.got = {} /\ ~n.stopped
    <3>1. NoSession \in Sessions
      BY Constants DEF NoRead
    <3>2. \A y \in Sessions : [y EXCEPT !.need = edges] \in Sessions
      BY <1>2 DEF Sessions
    <3> QED  BY <3>1, <3>2 DEF NoSession
  <2>4. /\ FoundOrCreated \in Sessions
        /\ session[r].state = "none" =>
              /\ FoundOrCreated.need = edges /\ FoundOrCreated.got = {}
              /\ ~FoundOrCreated.stopped
        /\ session[r].state # "none" => FoundOrCreated = pass.seen
    BY <1>2, <1>4, <2>3 DEF FoundOrCreated
  <2>5. md \in Sessions /\ md.need = FoundOrCreated.need /\ md.stopped = FoundOrCreated.stopped
        /\ md.got = FoundOrCreated.got \cup ({s} \cap FoundOrCreated.need)
    BY <2>1, <2>4
  <2>6. st \in Sessions
    <3> HIDE DEF md
    <3> QED  BY <2>2, <2>5
  <2> HIDE DEF md, st
  <2> QED  BY <2>4, <2>5, <2>6
<1>6. \/ md.stopped /\ KeepOpen(r, md)
      \/ \E o : Finish(r, st, o)
      \/ \E o : Finish(r, md, o)
      \/ ~md.stopped /\ ~HasReceivedAll(md) /\ KeepOpen(r, md)
  BY <1>1 DEF MergeItem
<1> HIDE DEF md, st, s
<1>7. ASSUME NEW x \in Sessions, \E o : Finish(r, x, o)
      PROVE  /\ \A q \in Runs : q # r => session'[q] = session[q]
             /\ session'[r].state \notin OpenStates /\ session'[r].state # "none"
  <2>1. /\ \A q \in Runs : q # r => session'[q] = session[q]
        /\ \/ session'[r].state = "finished"
           \/ session[r].state = "cancelling" /\ session'[r].state = "cancelling"
    BY <1>7, FinishData, InMergeTypes
  <2> QED  BY <2>1 DEF OpenStates
<1>8. ASSUME KeepOpen(r, md)
      PROVE  /\ \A q \in Runs : q # r => session'[q] = session[q]
             /\ SameData(session'[r], md)
             /\ session'[r].state =
                   IF session[r].state = "none" THEN "pending" ELSE session[r].state
  BY <1>5, <1>8, WrittenData, InMergeTypes DEF KeepOpen
<1>9. ASSUME r \notin lost PROVE Collected(r)'
  <2>1. Collected(r) /\ Holds(r)
    BY <1>1, <1>2, <1>9, InMergeTypes DEF Holds
  <2>2. CASE \E x \in Sessions : \E o : Finish(r, x, o)
    BY <1>3, <1>7, <2>2, EndedCollects
  <2>3. CASE md.stopped /\ KeepOpen(r, md)
    <3>1. session[r].state # "none" /\ session[r].state \notin OpenStates
      BY <1>5, <2>1, <2>3 DEF Collected, SameInputs
    <3> QED  BY <1>3, <1>8, <2>3, <3>1, EndedCollects
  <2>4. CASE ~md.stopped /\ ~HasReceivedAll(md) /\ KeepOpen(r, md)
    <3>1. /\ session'[r].need = md.need /\ session'[r].got = md.got
          /\ session'[r].stopped = md.stopped
          /\ session'[r].state # "none"
          /\ session'[r].state \in OpenStates =>
                session[r].state = "none" \/ session[r].state \in OpenStates
      BY <1>8, <2>4 DEF SameData
    <3>2. ~(md.need \subseteq md.got) /\ ~md.stopped
      BY <2>4 DEF HasReceivedAll
    <3>3. ASSUME session'[r].state \in OpenStates, run[r] = "started"
          PROVE  md.got \cup (SourcesOf(r)' \cap md.need) = delivered[r] \cap md.need
      <4>1. SourcesOf(r) = SourcesOf(r)' \cup {s}
        BY <1>3, <3>3
      <4>2. CASE session[r].state = "none"
        <5>1. SourcesOf(r) = delivered[r]
          BY <2>1, <3>3, <4>2 DEF Collected
        <5> QED  BY <1>5, <4>1, <4>2, <5>1
      <4>3. CASE session[r].state \in OpenStates
        <5>1. /\ session[r].got \cup (SourcesOf(r) \cap session[r].need)
                    = delivered[r] \cap session[r].need
              /\ session[r].need = pass.seen.need /\ session[r].got = pass.seen.got
          BY <2>1, <3>3, <4>3 DEF Collected, SameInputs, OpenStates
        <5>2. /\ md.need = session[r].need
              /\ md.got = session[r].got \cup ({s} \cap session[r].need)
          BY <1>5, <4>3, <5>1 DEF OpenStates
        <5> QED  BY <4>1, <5>1, <5>2
      <4> QED  BY <3>1, <3>3, <4>2, <4>3
    <3> QED  BY <1>2, <1>3, <3>1, <3>2, <3>3 DEF Collected
  <2> QED  BY <1>5, <1>6, <2>2, <2>3, <2>4
<1>10. ASSUME NEW q \in Runs \ lost, q # r PROVE Collected(q)'
  <2>1. session'[q] = session[q]
    BY <1>5, <1>6, <1>7, <1>8, <1>10
  <2>2. InputsRest(q)
    BY <1>2, <1>3, <1>10, <2>1 DEF InputsRest, SameInputs
  <2> QED  BY <1>3, <2>2, KeepCollected, InMergeTypes
<1> QED  BY <1>2, <1>9, <1>10

\* An item that is dropped belongs to a run that is over or a session that is.
LEMMA CollectSkip ==
    ASSUME InMerge, SkipItem
    PROVE  \A r \in Runs \ lost' : Collected(r)'
<1>1. PICK r \in Runs : r = pass.item.run
  BY PassHolds, InMergeTypes DEF SkipItem
<1>2. /\ pass.on /\ pass' = NoPass /\ queue' = Dequeued
      /\ ~pass.live \/ pass.seen.state = "finished"
      /\ UNCHANGED <<run, session, delivered, lost>>
  BY DEF SkipItem, histVars
<1>3. /\ \A q : ~Holds(q)'
      /\ \A q : q # r => SourcesOf(q)' = SourcesOf(q)
  BY <1>1, <1>2, MergeDequeue, InMergeTypes DEF InMerge
<1>4. ASSUME NEW q \in Runs \ lost, q # r PROVE Collected(q)'
  <2>1. InputsRest(q)
    BY <1>2, <1>3, <1>4 DEF InputsRest, SameInputs
  <2> QED  BY <1>3, <2>1, KeepCollected, InMergeTypes
<1>5. ASSUME r \notin lost PROVE Collected(r)'
  <2>1. Collected(r) /\ Holds(r)
    BY <1>1, <1>2, <1>5, InMergeTypes DEF Holds
  <2>2. CASE run[r] # "started"
    <3>1. InputsRest(r)
      BY <1>2, <2>2 DEF InputsRest, SameInputs
    <3> QED  BY <1>3, <2>1, <3>1, KeepCollected
  <2>3. CASE run[r] = "started"
    <3>1. pass.seen.state = "finished"
      BY <1>1, <1>2, <2>3 DEF InMerge, ItemStays
    <3>2. session[r].state \notin OpenStates
      BY <2>1, <3>1 DEF Collected
    <3>3. session[r].state # "none"
      BY <1>1, <1>2, <3>1 DEF InMerge, ReadInv
    <3> QED  BY <1>2, <1>3, <3>2, <3>3, EndedCollects
  <2> QED  BY <2>2, <2>3
<1> QED  BY <1>2, <1>4, <1>5

\* An input that comes is queued.
LEMMA CollectArrive ==
    ASSUME InMerge, NEW r \in Runs, NEW s \in Sources, ArriveAtMerge(r, s)
    PROVE  \A q \in Runs \ lost' : Collected(q)'
<1> DEFINE x == [run |-> r, source |-> s]
<1>1. /\ queue' = Append(queue, x) /\ delivered' = [delivered EXCEPT ![r] = @ \cup {s}]
      /\ UNCHANGED <<run, pass, session, lost>>
  BY DEF ArriveAtMerge
<1>2. x \in Items /\ x.run = r /\ x.source = s
  BY DEF Items
<1> HIDE DEF x
<1>3. ItemsOf(queue') = ItemsOf(queue) \cup {x}
  BY <1>1, <1>2, AppendItems, InMergeTypes DEF QueueTypes
<1>4. /\ \A q : q # r => SourcesOf(q)' = SourcesOf(q)
      /\ SourcesOf(r)' = SourcesOf(r) \cup {s}
  BY <1>2, <1>3 DEF SourcesOf
<1>5. /\ \A q \in Runs : q # r => delivered'[q] = delivered[q]
      /\ delivered'[r] = delivered[r] \cup {s}
  BY <1>1, InMergeTypes DEF CountTypes
<1>6. ASSUME NEW q \in Runs \ lost, q # r PROVE Collected(q)'
  <2>1. InputsRest(q)
    BY <1>1, <1>4, <1>5, <1>6 DEF InputsRest, SameInputs
  <2>2. ~Holds(q)' \/ (Holds(q) /\ pass'.seen = pass.seen)
    BY <1>1 DEF Holds
  <2> QED  BY <2>1, <2>2, KeepCollected, InMergeTypes
<1>7. ASSUME r \notin lost PROVE Collected(r)'
  <2>1. Collected(r)
    BY <1>7, InMergeTypes
  <2>2. Holds(r)' <=> Holds(r)
    BY <1>1 DEF Holds
  <2>3. run[r] = "started" /\ session[r].state \in OpenStates =>
           session[r].got \cup ((SourcesOf(r) \cup {s}) \cap session[r].need)
               = (delivered[r] \cup {s}) \cap session[r].need
    BY <2>1 DEF Collected
  <2> QED  BY <1>1, <1>4, <1>5, <2>1, <2>2, <2>3 DEF Collected
<1> QED  BY <1>1, <1>6, <1>7

\* The pass reads the metadata as they are.
LEMMA CollectRead ==
    ASSUME InMerge, ReadItem
    PROVE  \A r \in Runs \ lost' : Collected(r)'
<1>1. /\ UNCHANGED <<queue, run, session, delivered, lost>>
      /\ pass' = [on |-> TRUE, item |-> Head(queue), seen |-> session[Head(queue).run],
                  live |-> run[Head(queue).run] = "started"]
  BY DEF ReadItem, histVars
<1>2. ASSUME NEW r \in Runs \ lost PROVE Collected(r)'
  <2>1. InputsRest(r)
    BY <1>1 DEF InputsRest, SameInputs, SourcesOf
  <2>2. ~Holds(r)' \/ pass'.seen = session[r]
    BY <1>1 DEF Holds
  <2> QED  BY <1>1, <2>1, <2>2, KeepCollected, InMergeTypes
<1> QED  BY <1>1, <1>2

\* Beside the passes, a session may only be moved on or ended, and a run cancelled.
LEMMA CollectBeside ==
    ASSUME InMerge, NEW r \in Runs,
           pass' = pass, delivered' = delivered, lost \subseteq lost',
           \/ run' = run /\ queue' = queue
           \/ CancelRun(r) \/ DrainAgain(r),
           \/ session' = session
           \/ r \in lost' /\ \A q \in Runs : q # r => session'[q] = session[q]
           \/ \E s : /\ session' = [session EXCEPT ![r].state = s]
                     /\ s # "none" /\ session[r].state # "none"
                     /\ s \in OpenStates => session[r].state \in OpenStates
    PROVE  \A q \in Runs \ lost' : Collected(q)'
<1>1. ASSUME NEW q \in Runs
      PROVE  run'[q] = "started" => run[q] = "started" /\ SourcesOf(q)' = SourcesOf(q)
  <2>1. CASE run' = run /\ queue' = queue
    BY <2>1 DEF SourcesOf
  <2>2. CASE CancelRun(r) \/ DrainAgain(r)
    <3> DEFINE ds == {i \in Items : i.run = r}
    <3>1. queue' = Without(queue, ds) /\ run'[r] = "cancelling" /\ (q # r => run'[q] = run[q])
      BY <2>2, InMergeTypes DEF CancelRun, DrainAgain, Drain, CountTypes
    <3>2. queue \in Seq(Items)
      BY InMergeTypes DEF QueueTypes
    <3> HIDE DEF ds
    <3>4. ItemsOf(queue') = ItemsOf(queue) \ ds
      BY <3>1, <3>2, WithoutRows
    <3>5. q # r => \A x \in ItemsOf(queue) : x.run = q => x \notin ds
      BY DEF ds
    <3> QED  BY <3>1, <3>4, <3>5 DEF SourcesOf
  <2> QED  BY <2>1, <2>2
<1>2. ASSUME NEW q \in Runs \ lost'
      PROVE  /\ SameInputs(session'[q], session[q])
             /\ session'[q].state = "none" <=> session[q].state = "none"
             /\ session'[q].state \in OpenStates => session[q].state \in OpenStates
  <2>1. CASE session'[q] = session[q]
    BY <2>1 DEF SameInputs
  <2>2. ASSUME NEW s, session' = [session EXCEPT ![r].state = s],
               s # "none", session[r].state # "none",
               s \in OpenStates => session[r].state \in OpenStates
        PROVE  /\ SameInputs(session'[q], session[q])
               /\ session'[q].state = "none" <=> session[q].state = "none"
               /\ session'[q].state \in OpenStates => session[q].state \in OpenStates
    <3>1. /\ \A p \in Runs : p # r => session'[p] = session[p]
          /\ SameData(session'[r], session[r]) /\ session'[r].state = s
      BY <2>2, StateWritten, InMergeTypes
    <3>2. CASE q = r
      BY <2>2, <3>1, <3>2 DEF SameData, SameInputs
    <3>3. CASE q # r
      BY <2>1, <3>1, <3>3
    <3> QED  BY <3>2, <3>3
  <2> QED  BY <2>1, <2>2
<1>3. ASSUME NEW q \in Runs \ lost' PROVE Collected(q)'
  <2>1. InputsRest(q)
    BY <1>1, <1>2 DEF InputsRest
  <2>2. ~Holds(q)' \/ (Holds(q) /\ pass'.seen = pass.seen)
    BY DEF Holds
  <2>3. Collected(q)
    BY InMergeTypes
  <2> QED  BY <2>1, <2>2, <2>3, KeepCollected
<1> QED  BY <1>3

\* The timeout of a merge ends it, or undoes its cancellation.
LEMMA CollectTimeout ==
    ASSUME InMerge, NEW r \in Runs, MergeTimeout(r)
    PROVE  \A q \in Runs \ lost' : Collected(q)'
<1>1. /\ pass' = pass /\ delivered' = delivered /\ run' = run /\ queue' = queue
      /\ hook["timeout"][r] # NoRead
  BY DEF MergeTimeout, histVars, queueVars
<1>2. session[r].state # "none"
  BY <1>1 DEF InMerge, ReadInv, Hooks
<1>3. /\ lost \subseteq lost'
      /\ \/ session' = session
         \/ r \in lost' /\ \A q \in Runs : q # r => session'[q] = session[q]
         \/ session' = [session EXCEPT ![r].state = "finished"]
  <2>1. CASE IsCancelled(r) /\ SaveRead("timeout", r)
    <3>1. session' = [session EXCEPT ![r] = hook["timeout"][r]] /\ lost' = lost \cup {r}
      BY <2>1 DEF IsCancelled, SaveRead, OpenStates
    <3> QED  BY <3>1, InMergeTypes DEF RowTypes
  <2> QED  BY <2>1 DEF MergeTimeout
<1>4. "finished" \notin OpenStates
  BY DEF OpenStates
<1> QED  BY <1>1, <1>2, <1>3, <1>4, CollectBeside

\* Every action of a merge keeps its inputs together.
LEMMA CollectNext ==
    ASSUME TypeOK, ReadInv, NoRounds, CollectInv, [Next]_vars PROVE CollectInv'
<1>1. kind' = kind
  <2>1. CASE Next
    BY <2>1, StepsAreOfKinds, TypeParts DEF StepKinds
  <2>2. CASE UNCHANGED vars
    BY <2>2 DEF vars, nodeVars
  <2> QED  BY <2>1, <2>2
<1>2. ItemStays'
  BY ItemStaysNext DEF CollectInv
<1> DEFINE Goal == \A r \in Runs \ lost' : Collected(r)'
<1>3. SUFFICES ASSUME kind = "merge" PROVE Goal
  BY <1>1, <1>2 DEF CollectInv
<1>4. InMerge
  BY <1>3 DEF InMerge, CollectInv
<1> HIDE DEF Goal
<1>5. CASE ReadItem
  BY <1>4, <1>5, CollectRead DEF Goal
<1>6. CASE SkipItem
  BY <1>4, <1>6, CollectSkip DEF Goal
<1>7. CASE MergeItem
  BY <1>4, <1>7, CollectMerge DEF Goal
<1>8. ~DeferItem /\ ~StartLoop /\ ~HandleFeedback
      /\ \A r \in Runs : ~ArriveAtLoop(r) /\ ~LoopTimeout(r) /\ ~NextIteration(r)
  BY <1>3 DEF DeferItem, StartLoop, HandleFeedback, Takes, ArriveAtLoop, LoopTimeout,
              NextIteration, NoRounds
<1>9. ASSUME NEW r \in Runs, NEW s \in Sources, ArriveAtMerge(r, s) PROVE Goal
  BY <1>4, <1>9, CollectArrive DEF Goal
<1>10. ASSUME NEW r \in Runs, StartSession(r) \/ CancelSession(r) \/ Terminate(r) PROVE Goal
  <2>1. /\ pass' = pass /\ delivered' = delivered /\ lost' = lost
        /\ run' = run /\ queue' = queue
    BY <1>10 DEF StartSession, CancelSession, Terminate, queueVars, histVars
  <2>2. \E s : /\ session' = [session EXCEPT ![r].state = s]
               /\ s # "none" /\ session[r].state # "none"
               /\ s \in OpenStates => session[r].state \in OpenStates
    BY <1>10 DEF StartSession, CancelSession, Terminate, OpenStates
  <2> QED  BY <1>4, <2>1, <2>2, CollectBeside DEF Goal
<1>11. ASSUME NEW r \in Runs, CancelRun(r) \/ DrainAgain(r) PROVE Goal
  <2>1. /\ pass' = pass /\ delivered' = delivered /\ lost' = lost
        /\ session' = IF session[r].state \in OpenStates
                      THEN [session EXCEPT ![r].state = "cancelling"] ELSE session
    BY <1>11 DEF CancelRun, DrainAgain, Drain, histVars
  <2>2. \/ session' = session
        \/ \E s : /\ session' = [session EXCEPT ![r].state = s]
                  /\ s # "none" /\ session[r].state # "none"
                  /\ s \in OpenStates => session[r].state \in OpenStates
    BY <2>1 DEF OpenStates
  <2> QED  BY <1>4, <1>11, <2>1, <2>2, CollectBeside DEF Goal
<1>12. ASSUME NEW r \in Runs, UNCHANGED <<pass, delivered, lost, run, queue, session>>
       PROVE  Goal
  BY <1>4, <1>12, CollectBeside DEF Goal
<1>13. ASSUME NEW r \in Runs, NEW h \in Hooks, ReadForHook(h, r) PROVE Goal
  BY <1>12, <1>13 DEF ReadForHook, queueVars, histVars
<1>14. ASSUME NEW r \in Runs, MergeTimeout(r) PROVE Goal
  BY <1>4, <1>14, CollectTimeout DEF Goal
<1>15. CASE (\E s \in Sources : RemoveEdge(s)) \/ UNCHANGED vars
  <2>1. UNCHANGED <<pass, delivered, lost, run, queue, session>>
    BY <1>15 DEF RemoveEdge, vars, queueVars, histVars
  <2>2. CASE Runs = {}
    BY <2>2 DEF Goal
  <2>3. CASE Runs # {}
    BY <1>12, <2>1, <2>3
  <2> QED  BY <2>2, <2>3
<1> QED  BY <1>5, <1>6, <1>7, <1>8, <1>9, <1>10, <1>11, <1>13, <1>14, <1>15 DEF Next

(***************************************************************************)
(* A merge that is open has recorded every input that came for its run and *)
(* is not queued any more, and still misses one, for every set of sources  *)
(* and however many inputs come: what a pass has read of the metadata      *)
(* stays true until it writes, and only a cancellation takes an item away. *)
(***************************************************************************)
THEOREM MergesCollectInputs == Spec => []InputsAreCollected
<1>1. Init => CollectInv /\ NoRounds
  <2>1. SUFFICES ASSUME Init PROVE CollectInv /\ NoRounds
    OBVIOUS
  <2>2. /\ queue = <<>> /\ pass = NoPass
        /\ session = [r \in Runs |-> NoSession] /\ delivered = [r \in Runs |-> {}]
        /\ hook = [h \in Hooks |-> [r \in Runs |-> NoRead]]
        /\ waiting = [r \in Runs |-> 0] /\ rounds = [r \in Runs |-> 0]
    BY <2>1 DEF Init
  <2>3. NoRounds
    BY <2>2 DEF NoRounds, Hooks
  <2>4. ItemsOf(queue) = {} /\ ~pass.on
    BY <2>2, Constants DEF ItemsOf
  <2>5. \A r \in Runs : SourcesOf(r) = {} /\ ~Holds(r) /\ session[r].state = "none"
    BY <2>2, <2>4 DEF SourcesOf, Holds, NoSession
  <2>6. \A r \in Runs : Collected(r)
    BY <2>2, <2>5 DEF Collected, OpenStates
  <2> QED  BY <2>3, <2>4, <2>6 DEF CollectInv, ItemStays
<1>2. TypeOK /\ SessionInv /\ CollectInv /\ NoRounds /\ [Next]_vars => CollectInv' /\ NoRounds'
  BY CollectNext, NoRoundsNext DEF SessionInv
<1>3. CollectInv => InputsAreCollected
  <2>1. SUFFICES ASSUME CollectInv, kind = "merge", NEW r \in Runs \ lost,
                        session[r].state \in OpenStates, run[r] = "started"
                 PROVE  /\ session[r].got \cup (SourcesOf(r) \cap session[r].need)
                              = delivered[r] \cap session[r].need
                        /\ ~(session[r].need \subseteq session[r].got)
    BY QueuedSources DEF InputsAreCollected
  <2> QED  BY <2>1 DEF CollectInv, Collected
<1> QED  BY <1>1, <1>2, <1>3, NodeTypeCorrect, InvHolds, PTL DEF Spec
=============================================================================
