------------------------ MODULE BuildContainerProofs ------------------------
(***************************************************************************)
(* Proofs about BuildContainer, for any analyses, addresses and numbers of *)
(* attempts and containers: types, and the safety properties of the module.*)
(*                                                                         *)
(* Everything follows from what becomes of a build token.  An attempt has  *)
(* its token from the setup on; of every token there is one setup or one   *)
(* container at a time, and while the attempt runs commands, the container *)
(* is its own or gone.                                                     *)
(***************************************************************************)
EXTENDS BuildContainer, TLAPS

Busy == {"poll", "run", "wait"}
PastCheckout == {"submodules", "goenvbuild", "lint"}

(***************************************************************************)
(* The inductive invariant                                                 *)
(***************************************************************************)

\* A container has a token as long as it is alive.
TokenInv ==
  \A c \in Containers :
    /\ Alive(c) => \E t \in Tokens : ctr[c].token = {t}
    /\ ctr[c].token # {} => Alive(c)

\* Of a token there is one setup, or one container.
OneInv ==
  /\ \A c, d \in Containers, t \in Tokens :
       ctr[c].token = {t} /\ ctr[d].token = {t} => c = d
  /\ \A s \in setups : \A c \in Containers : ctr[c].token # {s.token}
  /\ \A s, u \in setups : s.token = u.token => s = u

\* The token is of an earlier attempt, or of the current one, which is not at
\* one of the steps in before.
Used(t, before) ==
  \/ t[2] < job[t[1]].attempt
  \/ t[2] = job[t[1]].attempt /\ job[t[1]].pc \notin before

\* Setups and containers are of attempts that have asked for them.
UsedInv ==
  /\ \A s \in setups : Used(s.token, {"queued"} \cup Busy)
  /\ \A c \in Containers, t \in Tokens :
       ctr[c].token = {t} => Used(t, {"queued", "setup"})

\* An attempt that runs commands knows its container, the only one with its
\* token, unless that is gone.
HeldInv(a) ==
  job[a].pc \in Busy =>
    /\ job[a].ctr \in Containers
    /\ ctr[job[a].ctr].token = {Token(a)} \/ ctr[job[a].ctr].state = "gone"
    /\ \A c \in Containers : ctr[c].token = {Token(a)} => c = job[a].ctr

\* Commands run in it, and from the checkout on it has the commit.
CodeInv(a) ==
  /\ job[a].pc \in {"queued", "setup", "poll"} => job[a].step = "clone"
  /\ job[a].pc = "wait" => job[a].target = job[a].ctr
  /\ /\ job[a].pc \in {"run", "wait"}
     /\ job[a].step \in PastCheckout
     /\ ctr[job[a].ctr].token = {Token(a)}
     => ctr[job[a].ctr].code = Code(a, Pinned)

LintedInv(a) ==
  job[a].pc = "submit" /\ job[a].linted # {} =>
    job[a].failure = "none" /\ job[a].linted = Code(a, Pinned)

JobInv == \A a \in Analyses : HeldInv(a) /\ CodeInv(a) /\ LintedInv(a)

BuildInv ==
  TokenInv /\ OneInv /\ UsedInv /\ JobInv /\ NothingForgotten /\ ResultOfCommit

IInv == TypeOK /\ BuildInv

(***************************************************************************)
(* Types                                                                   *)
(***************************************************************************)

LEMMA Bounds ==
  /\ NoContainer \notin Containers /\ Pinned \in Commits /\ 0 \in 0..SetupTries - 1
  /\ \A a \in Analyses : MaxAttempts[a] \in Nat \ {0}
  /\ \A t \in Tokens : /\ t = <<t[1], t[2]>> /\ t[1] \in Analyses
                       /\ t[2] \in Nat \ {0} /\ t[2] <= MaxAttempts[t[1]]
  /\ \A a \in Analyses, n \in Nat \ {0} : n <= MaxAttempts[a] => <<a, n>> \in Tokens
BY BuildAssumption DEF NoContainer, Containers, Pinned, Commits, Tokens

LEMMA Typed ==
  ASSUME TypeOK
  PROVE  /\ job \in [Analyses -> JobType] /\ ctr \in [Containers -> CtrType]
         /\ setups \subseteq [token : Tokens, tries : 0..SetupTries - 1]
         /\ leaked \subseteq Containers
         /\ \A a \in Analyses : /\ job[a] \in JobType /\ job[a].attempt \in Nat \ {0}
                                /\ Token(a) = <<a, job[a].attempt>>
                                /\ Token(a) \in Tokens
         /\ \A s \in setups : /\ s.token \in Tokens /\ s.token[1] \in Analyses
                              /\ s.tries \in 0..SetupTries - 1
                              /\ s.token = <<s.token[1], s.token[2]>>
                              /\ s.token[2] \in Nat \ {0}
<1>1. job \in [Analyses -> JobType] /\ ctr \in [Containers -> CtrType]
      /\ setups \subseteq [token : Tokens, tries : 0..SetupTries - 1]
      /\ leaked \subseteq Containers /\ \A a \in Analyses : Token(a) \in Tokens
  BY DEF TypeOK
<1>2. \A a \in Analyses : job[a] \in JobType /\ job[a].attempt \in Nat \ {0}
  BY <1>1 DEF JobType
<1>3. \A s \in setups : s.token \in Tokens /\ s.tries \in 0..SetupTries - 1
  BY <1>1
<1>4. QED
  BY <1>1, <1>2, <1>3, Bounds DEF Token

\* Records that the actions make
LEMMA QueuedType ==
  ASSUME NEW n \in Nat \ {0}
  PROVE  /\ Queued(n) \in JobType /\ [Queued(n) EXCEPT !.pc = "done"] \in JobType
         /\ Queued(n).pc = "queued" /\ Queued(n).attempt = n
         /\ Queued(n).step = "clone"
<1>1. {} \in Lints /\ {} \in Addresses
  BY DEF Lints, Addresses
<1>2. QED
  BY <1>1 DEF Queued, JobType, Kinds, Steps, Failures

LEMMA EndedType ==
  ASSUME TypeOK, NEW a \in Analyses, NEW e \in Failures, NEW code \in Lints
  PROVE  /\ Ended(a, e, code) \in JobType
         /\ Ended(a, e, code).pc = "submit"
         /\ Ended(a, e, code).attempt = job[a].attempt
         /\ Ended(a, e, code).ctr = job[a].ctr
         /\ Ended(a, e, code).failure = e
         /\ Ended(a, e, code).linted = code
<1>1. job[a].attempt \in Nat \ {0} /\ job[a].ctr \in Containers \cup {NoContainer}
  BY DEF TypeOK, JobType
<1>3. {} \in Addresses
  BY DEF Addresses
<1>2. QED
  BY <1>1, <1>3 DEF Ended, Queued, JobType, Kinds, Steps

LEMMA FailedType ==
  ASSUME TypeOK, NEW a \in Analyses, NEW e \in Failures
  PROVE  /\ Failed(a, e) \in JobType
         /\ Failed(a, e).pc = "submit"
         /\ Failed(a, e).attempt = job[a].attempt
         /\ Failed(a, e).ctr = job[a].ctr
         /\ Failed(a, e).linted = {}
<1>1. {} \in Lints /\ "panic" \in Failures
  BY DEF Lints, Failures
<1>2. CASE job[a].step \in {"submodules", "lint"} /\ e \in {"executor", "deadline"}
  BY <1>1, <1>2, EndedType DEF Failed
<1>3. CASE ~(job[a].step \in {"submodules", "lint"} /\ e \in {"executor", "deadline"})
  BY <1>1, <1>3, EndedType DEF Failed
<1>4. QED
  BY <1>2, <1>3

LEMMA CtrTyped ==
  ASSUME TypeOK, NEW c \in Containers
  PROVE  /\ ctr[c] \in CtrType /\ ctr[c].state \in {"none", "starting", "up", "gone"}
         /\ ctr[c].addr \in Addresses /\ ctr[c].token \in SUBSET Tokens
         /\ ctr[c].code \in Lints
BY DEF TypeOK, CtrType

LEMMA GoneType == Gone \in CtrType /\ Gone.state = "gone" /\ Gone.token = {}
BY DEF Gone, Free, CtrType, Addresses, Lints

(***************************************************************************)
(* Initially                                                               *)
(***************************************************************************)

LEMMA InitInv == Init => IInv
<1> SUFFICES ASSUME Init PROVE IInv
  OBVIOUS
<1>1. \A a \in Analyses : job[a] = Queued(1) /\ Queued(1) \in JobType
  BY QueuedType, 1 \in Nat \ {0} DEF Init
<1>2. \A c \in Containers : ctr[c] = Free /\ Free.state = "none" /\ Free.token = {}
                            /\ Free \in CtrType
  BY DEF Init, Free, CtrType, Addresses, Lints
<1>3. \A a \in Analyses : job[a].pc = "queued" /\ job[a].attempt = 1 /\ job[a].step = "clone"
  BY <1>1, QueuedType, 1 \in Nat \ {0}
<1>4. TypeOK
  <2>1. ASSUME NEW a \in Analyses PROVE Token(a) \in Tokens
    <3>1. 1 \in Nat \ {0} /\ 1 <= MaxAttempts[a]
      BY Bounds
    <3>2. <<a, 1>> \in Tokens
      BY <3>1, Bounds
    <3>3. QED
      BY <3>2, <1>3 DEF Token
  <2>2. job \in [Analyses -> JobType] /\ ctr \in [Containers -> CtrType]
    BY <1>1, <1>2 DEF Init
  <2>3. result \in [Analyses -> [status : {"none", "processed", "error", "not_found"},
                                 code : Lints]]
    BY DEF Init, NoResult, Lints
  <2>4. QED
    BY <2>1, <2>2, <2>3 DEF Init, TypeOK
<1>5. TokenInv /\ OneInv /\ UsedInv /\ NothingForgotten
  BY <1>2 DEF Init, TokenInv, OneInv, UsedInv, NothingForgotten, Alive
<1>6. JobInv
  BY <1>3 DEF JobInv, HeldInv, CodeInv, LintedInv, Busy
<1>7. ResultOfCommit
  BY DEF Init, NoResult, ResultOfCommit
<1>8. QED
  BY <1>4, <1>5, <1>6, <1>7 DEF IInv, BuildInv

(***************************************************************************)
(* Steps of one attempt, that change nothing else                          *)
(***************************************************************************)

\* Types are kept by a step that gives an attempt a new record.
LEMMA JobTyped ==
  ASSUME TypeOK, NEW a \in Analyses, NEW j \in JobType,
         job' = [job EXCEPT ![a] = j], j.attempt <= MaxAttempts[a]
  PROVE  /\ job' \in [Analyses -> JobType] /\ job'[a] = j
         /\ \A b \in Analyses : b # a => job'[b] = job[b]
         /\ Token(a)' = <<a, j.attempt>>
         /\ \A b \in Analyses : b # a => Token(b)' = Token(b)
         /\ \A b \in Analyses : Token(b)' \in Tokens
<1>1. job \in [Analyses -> JobType]
  BY Typed
<1>2. job' \in [Analyses -> JobType] /\ job'[a] = j
      /\ \A b \in Analyses : b # a => job'[b] = job[b]
  BY <1>1
<1>3. Token(a)' = <<a, j.attempt>> /\ \A b \in Analyses : b # a => Token(b)' = Token(b)
  BY <1>2 DEF Token
<1>4. j.attempt \in Nat \ {0}
  BY DEF JobType
<1>5. <<a, j.attempt>> \in Tokens
  BY <1>4, Bounds
<1>6. QED
  BY <1>2, <1>3, <1>5, Typed

LEMMA AttemptBound ==
  ASSUME TypeOK, NEW a \in Analyses
  PROVE  job[a].attempt \in Nat \ {0} /\ job[a].attempt <= MaxAttempts[a]
<1>1. Token(a) = <<a, job[a].attempt>> /\ Token(a) \in Tokens /\ job[a].attempt \in Nat \ {0}
  BY Typed
<1>2. QED
  BY <1>1, Bounds

\* Results are typed and of the right commit.
ResultInv ==
  /\ result \in [Analyses -> [status : {"none", "processed", "error", "not_found"},
                              code : Lints]]
  /\ ResultOfCommit

\* An attempt with a token goes on, without a new container.
LEMMA JobStep ==
  ASSUME IInv, NEW a \in Analyses, NEW j \in JobType,
         job' = [job EXCEPT ![a] = j], UNCHANGED <<ctr, leaked>>,
         ResultInv', setups' \subseteq setups,
         j.attempt = job[a].attempt, j.ctr = job[a].ctr,
         job[a].pc \in {"queued", "setup", "submit"} \cup Busy,
         \/ j.pc = "submit" /\ (j.linted # {} => j.failure = "none" /\ j.linted = Code(a, Pinned))
         \/ j.pc = "clean"
         \/ /\ j.pc \in {"run", "wait"} /\ job[a].pc \in Busy
            /\ j.pc = "wait" => j.target = j.ctr
            /\ j.step \in PastCheckout /\ ctr[j.ctr].token = {Token(a)}
                 => ctr[j.ctr].code = Code(a, Pinned)
  PROVE  IInv'
<1>1. TypeOK /\ BuildInv
  BY DEF IInv
<1>2. j.attempt <= MaxAttempts[a]
  BY <1>1, AttemptBound
<1>3. /\ job' \in [Analyses -> JobType] /\ job'[a] = j
      /\ \A b \in Analyses : b # a => job'[b] = job[b]
      /\ \A b \in Analyses : Token(b)' = Token(b) /\ Token(b)' \in Tokens
      /\ \A b \in Analyses : job'[b].attempt = job[b].attempt
  BY <1>1, <1>2, JobTyped DEF Token
<1>4. TypeOK'
  BY <1>1, <1>3 DEF TypeOK, ResultInv
<1>5. TokenInv' /\ OneInv'
  BY <1>1 DEF BuildInv, TokenInv, OneInv, Alive
<1>6. UsedInv'
  <2>1. \A t \in Tokens : t[1] \in Analyses
    BY Bounds
  <2>2. ASSUME NEW t \in Tokens, Used(t, {"queued"} \cup Busy)
        PROVE  Used(t, {"queued"} \cup Busy)'
    BY <2>1, <2>2, <1>3 DEF Used, Busy
  <2>3. ASSUME NEW t \in Tokens, Used(t, {"queued", "setup"})
        PROVE  Used(t, {"queued", "setup"})'
    BY <2>1, <2>3, <1>3 DEF Used, Busy
  <2>4. \A s \in setups : s.token \in Tokens
    BY <1>1, Typed
  <2>5. QED
    BY <1>1, <2>2, <2>3, <2>4 DEF BuildInv, UsedInv
<1>7. JobInv'
  <2>1. ASSUME NEW b \in Analyses, b # a PROVE (HeldInv(b) /\ CodeInv(b) /\ LintedInv(b))'
    BY <1>1, <1>3, <2>1 DEF BuildInv, JobInv, HeldInv, CodeInv, LintedInv
  <2>2. HeldInv(a)'
    BY <1>1, <1>3 DEF BuildInv, JobInv, HeldInv, Busy
  <2>3. CodeInv(a)' /\ LintedInv(a)'
    BY <1>3 DEF CodeInv, LintedInv
  <2>4. QED
    BY <2>1, <2>2, <2>3 DEF JobInv
<1>8. NothingForgotten'
  BY <1>1, <1>3 DEF BuildInv, NothingForgotten, Alive, Busy
<1>9. QED
  BY <1>4, <1>5, <1>6, <1>7, <1>8 DEF IInv, BuildInv, ResultInv

\* No new result
LEMMA SameResult == ASSUME IInv, UNCHANGED result PROVE ResultInv'
BY DEF IInv, TypeOK, BuildInv, ResultInv, ResultOfCommit

\* The attempt ends with an error.
LEMMA FailStep ==
  ASSUME IInv, NEW a \in Analyses, NEW e \in Failures, Fail(a, e),
         UNCHANGED <<result, ctr, leaked>>, setups' \subseteq setups,
         job[a].pc \in {"setup"} \cup Busy
  PROVE  IInv'
<1>1. TypeOK /\ ResultInv'
  BY SameResult DEF IInv
<1>2. job' = [job EXCEPT ![a] = Failed(a, e)]
  BY DEF Fail
<1>3. QED
  BY <1>1, <1>2, FailedType, JobStep

\* What the provers need of an attempt's record
LEMMA JobTypes ==
  ASSUME TypeOK, NEW a \in Analyses
  PROVE  /\ job[a] \in JobType /\ job[a].step \in Steps /\ job[a].linted \in Lints
         /\ job[a].addr \in Addresses /\ job[a].kind \in Kinds
         /\ job[a].ctr \in Containers \cup {NoContainer}
         /\ job[a].failure \in Failures
         /\ job \in [Analyses -> JobType]
BY DEF TypeOK, JobType

LEMMA PollTaskStep ==
  ASSUME IInv, NEW a \in Analyses, PollTask(a) PROVE IInv'
<1>1. TypeOK /\ job[a].pc = "poll" /\ HeldInv(a) /\ CodeInv(a)
  BY DEF IInv, BuildInv, JobInv, PollTask
<1>2. CASE Fail(a, "executor")
  BY <1>1, <1>2, FailStep DEF PollTask, Failures, Busy
<1>3. CASE /\ ctr[job[a].ctr].state = "up"
           /\ job' = [job EXCEPT ![a].pc = "run", ![a].addr = ctr[job[a].ctr].addr]
  <2> DEFINE j == [job[a] EXCEPT !.pc = "run", !.addr = ctr[job[a].ctr].addr]
  <2>1. ctr[job[a].ctr].addr \in Addresses
    BY <1>1, CtrTyped DEF HeldInv, Busy
  <2>2. j \in JobType /\ j.pc = "run" /\ j.attempt = job[a].attempt /\ j.ctr = job[a].ctr
        /\ j.step = job[a].step
    BY <1>1, <2>1, JobTypes DEF JobType
  <2>3. job' = [job EXCEPT ![a] = j]
    BY <1>1, <1>3, JobTypes
  <2>4. j.step = "clone" /\ "clone" \notin PastCheckout
    BY <1>1, <2>2 DEF CodeInv, PastCheckout
  <2> HIDE DEF j
  <2>5. QED
    BY <1>1, <2>2, <2>3, <2>4, JobStep, SameResult DEF PollTask, Busy
<1>4. QED
  BY <1>2, <1>3 DEF PollTask

LEMMA SendCommandStep ==
  ASSUME IInv, NEW a \in Analyses, SendCommand(a) PROVE IInv'
<1>1. TypeOK /\ job[a].pc = "run" /\ HeldInv(a) /\ CodeInv(a)
      /\ UNCHANGED <<result, setups, ctr, leaked>>
  BY DEF IInv, BuildInv, JobInv, SendCommand
<1>2. CASE Fail(a, "executor")
  BY <1>1, <1>2, FailStep DEF Failures, Busy
<1>3. ASSUME NEW c \in Containers, ctr[c].token = {Token(a)},
             job' = [job EXCEPT ![a].pc = "wait", ![a].target = c]
      PROVE  IInv'
  <2> DEFINE j == [job[a] EXCEPT !.pc = "wait", !.target = c]
  <2>1. j \in JobType /\ j.pc = "wait" /\ j.attempt = job[a].attempt /\ j.ctr = job[a].ctr
        /\ j.step = job[a].step /\ j.target = c
    BY <1>1, JobTypes DEF JobType
  <2>2. job' = [job EXCEPT ![a] = j]
    BY <1>1, <1>3, JobTypes
  <2>3. c = job[a].ctr
    BY <1>1, <1>3 DEF HeldInv, Busy
  <2>4. job[a].step \in PastCheckout /\ ctr[job[a].ctr].token = {Token(a)}
          => ctr[job[a].ctr].code = Code(a, Pinned)
    BY <1>1 DEF CodeInv
  <2> HIDE DEF j
  <2>5. QED
    BY <1>1, <2>1, <2>2, <2>3, <2>4, JobStep, SameResult DEF Busy
<1>4. QED
  BY <1>2, <1>3 DEF SendCommand, Listening

LEMMA SendTooLateStep ==
  ASSUME IInv, NEW a \in Analyses, SendTooLate(a) PROVE IInv'
BY FailStep DEF SendTooLate, Failures, Busy

LEMMA ConnectionBreaksStep ==
  ASSUME IInv, NEW a \in Analyses, ConnectionBreaks(a) PROVE IInv'
BY FailStep DEF ConnectionBreaks, Failures, Busy

LEMMA LateType ==
  ASSUME NEW q \in JobType, NEW late \in BOOLEAN
  PROVE  [q EXCEPT !.late = late] \in JobType
BY DEF JobType

LEMMA DeadlinePassesStep ==
  ASSUME IInv, NEW a \in Analyses, DeadlinePasses(a) PROVE IInv'
<1>1. TypeOK /\ CodeInv(a) /\ UNCHANGED <<result, setups, ctr, leaked>>
      /\ job[a].pc \in {"setup"} \cup Busy
  BY DEF IInv, BuildInv, JobInv, DeadlinePasses, Busy
<1>2. CASE job[a].pc # "run"
  BY <1>1, <1>2, FailStep DEF DeadlinePasses, Failures
<1>3. CASE job[a].pc = "run"
  <2> DEFINE j == [job[a] EXCEPT !.late = TRUE]
  <2>0. job[a] \in JobType /\ TRUE \in BOOLEAN
    BY <1>1, JobTypes
  <2>1. j.pc = "run" /\ j.attempt = job[a].attempt /\ j.ctr = job[a].ctr
        /\ j.step = job[a].step
    BY <1>3, <2>0 DEF JobType
  <2>5. j \in JobType
    BY <2>0, LateType
  <2>2. job' = [job EXCEPT ![a] = j]
    BY <1>1, <1>3, JobTypes DEF DeadlinePasses
  <2>3. job[a].step \in PastCheckout /\ ctr[job[a].ctr].token = {Token(a)}
          => ctr[job[a].ctr].code = Code(a, Pinned)
    BY <1>1, <1>3 DEF CodeInv
  <2> HIDE DEF j
  <2>4. QED
    BY <1>1, <1>3, <2>1, <2>2, <2>3, <2>5, JobStep, SameResult DEF Busy
<1>4. QED
  BY <1>2, <1>3

\* A command succeeds after the checkout.
LEMMA SucceedsStep ==
  ASSUME IInv, NEW a \in Analyses, job[a].pc = "wait", Succeeds(a),
         job[a].step \in {"submodules", "goenvbuild"},
         UNCHANGED <<result, setups, ctr, leaked>>
  PROVE  IInv'
<1>1. TypeOK /\ CodeInv(a)
  BY DEF IInv, BuildInv, JobInv
<1> DEFINE j == [job[a] EXCEPT !.pc = "run", !.step = NextStep[@]]
<1>2. NextStep[job[a].step] \in Steps /\ job[a].step \in PastCheckout
  BY DEF NextStep, Steps, PastCheckout
<1>3. j \in JobType /\ j.pc = "run" /\ j.attempt = job[a].attempt /\ j.ctr = job[a].ctr
  BY <1>1, <1>2, JobTypes DEF JobType
<1>4. job' = [job EXCEPT ![a] = j]
  BY <1>1, JobTypes DEF Succeeds
<1>5. ctr[job[a].ctr].token = {Token(a)} => ctr[job[a].ctr].code = Code(a, Pinned)
  BY <1>1, <1>2 DEF CodeInv
<1> HIDE DEF j
<1>6. QED
  BY <1>3, <1>4, <1>5, JobStep, SameResult DEF Busy

LEMMA UpdateSubmodulesStep ==
  ASSUME IInv, NEW a \in Analyses, UpdateSubmodules(a) PROVE IInv'
BY SucceedsStep DEF UpdateSubmodules, Ends

LEMMA GoenvbuildStep ==
  ASSUME IInv, NEW a \in Analyses, Goenvbuild(a) PROVE IInv'
BY SucceedsStep, FailStep DEF Goenvbuild, Ends, Failures, Busy

LEMMA LintStep ==
  ASSUME IInv, NEW a \in Analyses, Lint(a) PROVE IInv'
<1>1. TypeOK /\ job[a].pc = "wait" /\ job[a].step = "lint" /\ ctr[job[a].target].state = "up"
      /\ HeldInv(a) /\ CodeInv(a) /\ UNCHANGED <<result, setups, ctr, leaked>>
  BY DEF IInv, BuildInv, JobInv, Lint, Ends
<1>2. CASE \E e \in {"command", "nothing", "bad_input"} : Fail(a, e)
  BY <1>1, <1>2, FailStep DEF Failures, Busy
<1>3. CASE job' = [job EXCEPT ![a] = Ended(a, "none", ctr[job[a].target].code)]
  <2>1. job[a].target = job[a].ctr /\ job[a].ctr \in Containers
        /\ ctr[job[a].ctr].token = {Token(a)} /\ ctr[job[a].target].code = Code(a, Pinned)
    BY <1>1 DEF CodeInv, HeldInv, PastCheckout, Busy
  <2>2. ctr[job[a].target].code \in Lints /\ "none" \in Failures
    BY <1>1, <2>1, CtrTyped DEF Failures
  <2> DEFINE j == Ended(a, "none", ctr[job[a].target].code)
  <2>3. /\ j \in JobType /\ j.pc = "submit" /\ j.attempt = job[a].attempt
        /\ j.ctr = job[a].ctr /\ j.failure = "none" /\ j.linted = Code(a, Pinned)
    BY <1>1, <2>1, <2>2, EndedType
  <2> HIDE DEF j
  <2>4. job' = [job EXCEPT ![a] = j]
    BY <1>3 DEF j
  <2>5. QED
    BY <1>1, <2>3, <2>4, JobStep, SameResult DEF Busy
<1>4. QED
  BY <1>2, <1>3 DEF Lint

LEMMA SubmitResultStep ==
  ASSUME IInv, NEW a \in Analyses, SubmitResult(a) PROVE IInv'
<1>1. TypeOK /\ BuildInv /\ job[a].pc = "submit" /\ LintedInv(a)
      /\ UNCHANGED <<setups, ctr, leaked>>
  BY DEF IInv, BuildInv, JobInv, SubmitResult
<1>2. /\ job[a] \in JobType /\ job[a].linted \in Lints /\ {} \in Lints
      /\ Status(job[a].failure) \in {"processed", "error", "not_found"}
  BY <1>1, JobTypes DEF Status, Lints
<1>3. ResultInv'
  <2>1. CASE UNCHANGED result
    BY <2>1, SameResult
  <2>2. CASE result' = [result EXCEPT ![a] =
               [status |-> Status(job[a].failure), code |-> job[a].linted]]
    <3> DEFINE new == [status |-> Status(job[a].failure), code |-> job[a].linted]
    <3>1. new \in [status : {"none", "processed", "error", "not_found"}, code : Lints]
      BY <1>2
    <3>2. job[a].linted # {} => new = [status |-> "processed", code |-> Code(a, Pinned)]
      BY <1>1 DEF LintedInv, Status
    <3>3. new.code = job[a].linted
      OBVIOUS
    <3> HIDE DEF new
    <3>4. result' = [result EXCEPT ![a] = new]
      BY <2>2 DEF new
    <3>5. QED
      BY <1>1, <3>1, <3>2, <3>3, <3>4 DEF TypeOK, BuildInv, ResultInv, ResultOfCommit
  <2>3. QED
    BY <2>1, <2>2 DEF SubmitResult
<1> DEFINE j == [job[a] EXCEPT !.pc = "clean", !.linted = {}]
<1>4. j \in JobType /\ j.pc = "clean" /\ j.attempt = job[a].attempt /\ j.ctr = job[a].ctr
  BY <1>2 DEF JobType
<1>5. job' = [job EXCEPT ![a] = j]
  BY <1>1, JobTypes DEF SubmitResult
<1> HIDE DEF j
<1>6. QED
  BY <1>1, <1>3, <1>4, <1>5, JobStep

(***************************************************************************)
(* Setups and new containers                                               *)
(***************************************************************************)

LEMMA SetupContainerStep ==
  ASSUME IInv, NEW a \in Analyses, SetupContainer(a) PROVE IInv'
<1>1. TypeOK /\ BuildInv /\ job[a].pc = "queued" /\ CodeInv(a)
      /\ UNCHANGED <<result, ctr, leaked>>
      /\ setups' = setups \cup {[token |-> Token(a), tries |-> 0]}
  BY DEF IInv, BuildInv, JobInv, SetupContainer
<1> DEFINE j == [job[a] EXCEPT !.pc = "setup"]
<1>2. j \in JobType /\ j.pc = "setup" /\ j.attempt = job[a].attempt /\ j.step = "clone"
  BY <1>1, JobTypes DEF JobType, CodeInv
<1>3. job' = [job EXCEPT ![a] = j]
  BY <1>1, JobTypes DEF SetupContainer
<1>4. j.attempt <= MaxAttempts[a]
  BY <1>1, <1>2, AttemptBound
<1> HIDE DEF j
<1>5. /\ job' \in [Analyses -> JobType] /\ job'[a] = j
      /\ \A b \in Analyses : b # a => job'[b] = job[b]
      /\ \A b \in Analyses : Token(b)' = Token(b) /\ Token(b)' \in Tokens
      /\ \A b \in Analyses : job'[b].attempt = job[b].attempt
  BY <1>1, <1>2, <1>3, <1>4, JobTyped DEF Token
<1> DEFINE new == [token |-> Token(a), tries |-> 0]
<1>6. new.token = Token(a) /\ new \in [token : Tokens, tries : 0..SetupTries - 1]
      /\ Token(a) = <<a, job[a].attempt>> /\ Token(a) \in Tokens
  BY <1>1, Typed, Bounds
<1> HIDE DEF new
<1>7. setups' = setups \cup {new}
  BY <1>1 DEF new
<1>8. TypeOK'
  BY <1>1, <1>5, <1>6, <1>7 DEF TypeOK
<1>9. TokenInv'
  BY <1>1 DEF BuildInv, TokenInv, Alive
<1>10. /\ \A s \in setups : s.token # Token(a)
       /\ \A c \in Containers : ctr[c].token # {Token(a)}
  <2>1. ~Used(Token(a), {"queued"} \cup Busy) /\ ~Used(Token(a), {"queued", "setup"})
    BY <1>1, <1>6, AttemptBound DEF Used
  <2>2. QED
    BY <1>1, <1>6, <2>1 DEF BuildInv, UsedInv
<1>11. OneInv'
  BY <1>1, <1>6, <1>7, <1>10 DEF BuildInv, OneInv
<1>12. UsedInv'
  <2>1. \A t \in Tokens : t[1] \in Analyses
    BY Bounds
  <2>2. ASSUME NEW t \in Tokens, Used(t, {"queued"} \cup Busy)
        PROVE  Used(t, {"queued"} \cup Busy)'
    BY <2>1, <2>2, <1>1, <1>2, <1>5 DEF Used, Busy
  <2>3. ASSUME NEW t \in Tokens, t = Token(a) PROVE Used(t, {"queued"} \cup Busy)'
    BY <2>3, <1>2, <1>5, <1>6 DEF Used, Busy
  <2>4. ASSUME NEW t \in Tokens, Used(t, {"queued", "setup"}), t # Token(a)
        PROVE  Used(t, {"queued", "setup"})'
    BY <2>1, <2>4, <1>1, <1>2, <1>5 DEF Used, Busy
  <2>5. \A s \in setups : s.token \in Tokens
    BY <1>1, Typed
  <2>6. ASSUME NEW s, s \in setups' PROVE Used(s.token, {"queued"} \cup Busy)'
    <3>1. CASE s \in setups
      BY <1>1, <2>2, <2>5, <3>1 DEF BuildInv, UsedInv
    <3>2. CASE s \notin setups
      BY <1>6, <1>7, <2>3, <2>6, <3>2
    <3>3. QED
      BY <3>1, <3>2
  <2>7. ASSUME NEW c \in Containers, NEW t \in Tokens, ctr[c].token = {t}
        PROVE  Used(t, {"queued", "setup"})'
    BY <1>1, <1>10, <2>4, <2>7 DEF BuildInv, UsedInv
  <2>8. QED
    BY <1>1, <2>6, <2>7 DEF UsedInv
<1>13. JobInv'
  <2>1. ASSUME NEW b \in Analyses, b # a PROVE (HeldInv(b) /\ CodeInv(b) /\ LintedInv(b))'
    BY <1>1, <1>5, <2>1 DEF BuildInv, JobInv, HeldInv, CodeInv, LintedInv
  <2>2. (HeldInv(a) /\ CodeInv(a) /\ LintedInv(a))'
    BY <1>2, <1>5 DEF HeldInv, CodeInv, LintedInv, Busy
  <2>3. QED
    BY <2>1, <2>2 DEF JobInv
<1>14. NothingForgotten'
  BY <1>1, <1>5 DEF BuildInv, NothingForgotten, Alive
<1>15. QED
  BY <1>8, <1>9, <1>11, <1>12, <1>13, <1>14, SameResult, <1>1 DEF IInv, BuildInv, ResultInv

\* A setup that ends without a container
LEMMA SetupDropped ==
  ASSUME IInv, UNCHANGED <<job, result, ctr, leaked>>, setups' \subseteq setups
  PROVE  IInv'
<1>1. TypeOK /\ BuildInv
  BY DEF IInv
<1>2. TypeOK'
  BY <1>1 DEF TypeOK, Token
<1>3. TokenInv' /\ OneInv' /\ NothingForgotten' /\ ResultOfCommit'
  BY <1>1 DEF BuildInv, TokenInv, OneInv, NothingForgotten, ResultOfCommit, Alive, Token
<1>4. UsedInv' /\ JobInv'
  BY <1>1 DEF BuildInv, UsedInv, Used, JobInv, HeldInv, CodeInv, LintedInv, Token
<1>5. QED
  BY <1>2, <1>3, <1>4 DEF IInv, BuildInv

LEMMA DockerRunFailsStep ==
  ASSUME IInv, NEW s \in setups, DockerRunFails(s) PROVE IInv'
<1>1. TypeOK /\ BuildInv /\ UNCHANGED <<result, ctr, leaked>>
  BY DEF IInv, DockerRunFails
<1>2. CASE s.tries + 1 < SetupTries
  <2> DEFINE new == [s EXCEPT !.tries = @ + 1]
  <2>1. s \in [token : Tokens, tries : 0..SetupTries - 1] /\ SetupTries \in Nat
    BY <1>1, Typed, BuildAssumption
  <2>2. new.token = s.token /\ new \in [token : Tokens, tries : 0..SetupTries - 1]
    BY <1>2, <2>1
  <2>3. setups' = (setups \ {s}) \cup {new} /\ UNCHANGED job
    BY <1>2 DEF DockerRunFails
  <2> HIDE DEF new
  <2>4. TypeOK'
    BY <1>1, <2>2, <2>3 DEF TypeOK, Token
  <2>5. TokenInv' /\ OneInv' /\ NothingForgotten' /\ ResultOfCommit'
    BY <1>1, <2>2, <2>3
       DEF BuildInv, TokenInv, OneInv, NothingForgotten, ResultOfCommit, Alive, Token
  <2>6. UsedInv'
    BY <1>1, <2>2, <2>3 DEF BuildInv, UsedInv, Used
  <2>7. JobInv'
    BY <1>1, <2>3 DEF BuildInv, JobInv, HeldInv, CodeInv, LintedInv, Token
  <2>8. QED
    BY <2>4, <2>5, <2>6, <2>7 DEF IInv, BuildInv
<1>3. CASE ~(s.tries + 1 < SetupTries)
  <2>1. setups' \subseteq setups
    BY <1>3 DEF DockerRunFails
  <2>2. CASE Awaits(s.token)
    <3>1. s.token[1] \in Analyses /\ job[s.token[1]].pc = "setup"
      BY <1>1, <2>2, Typed DEF Awaits
    <3>2. Fail(s.token[1], "executor")
      BY <1>3, <2>2 DEF DockerRunFails
    <3>3. QED
      BY <1>1, <2>1, <3>1, <3>2, FailStep DEF Failures
  <2>3. CASE ~Awaits(s.token)
    BY <1>1, <1>3, <2>1, <2>3, SetupDropped DEF DockerRunFails
  <2>4. QED
    BY <2>2, <2>3
<1>4. QED
  BY <1>2, <1>3

\* A container is started for a token that has no other one and no setup left:
\* nobody waits for it any more, or the attempt ends, or goes on with it.
LEMMA NewContainer ==
  ASSUME IInv, NEW t \in Tokens, NEW a \in Analyses, t[1] = a,
         NEW c \in Containers, ctr[c].state = "none",
         NEW state \in {"starting", "up"}, NEW addr \in Addresses,
         Start(c, state, addr, t), UNCHANGED result,
         setups' \subseteq setups, \A s \in setups' : s.token # t,
         \A d \in Containers : ctr[d].token # {t},
         leaked \subseteq leaked', leaked' \subseteq leaked \cup {c},
         NEW j \in JobType, job' = [job EXCEPT ![a] = j], j.attempt = job[a].attempt,
         \/ t[2] < job[a].attempt
         \/ t[2] = job[a].attempt /\ j.pc \notin {"queued", "setup"},
         \/ /\ j = job[a] /\ c \in leaked'
            /\ t[2] = job[a].attempt => job[a].pc \notin Busy
         \/ /\ j.pc = "submit" /\ j.linted = {} /\ c \in leaked'
            /\ job[a].pc \in {"queued", "setup"}
         \/ /\ j.pc \in {"poll", "run"} /\ j.step = "clone" /\ j.ctr = c
            /\ job[a].pc \in {"queued", "setup"} /\ t[2] = job[a].attempt
  PROVE  IInv'
<1>1. TypeOK /\ BuildInv
  BY DEF IInv
<1>2. j.attempt <= MaxAttempts[a]
  BY <1>1, AttemptBound
<1>3. /\ job' \in [Analyses -> JobType] /\ job'[a] = j
      /\ \A b \in Analyses : b # a => job'[b] = job[b]
      /\ \A b \in Analyses : Token(b)' = Token(b) /\ Token(b)' \in Tokens
      /\ \A b \in Analyses : job'[b].attempt = job[b].attempt
      /\ \A b \in Analyses : Token(b) = <<b, job[b].attempt>>
      /\ \A b \in Analyses : job[b].attempt \in Nat
  BY <1>1, <1>2, JobTyped, Typed DEF Token
<1>4. /\ \A d \in Containers : d # c => ctr'[d] = ctr[d]
      /\ ctr'[c].state = state /\ ctr'[c].token = {t} /\ ctr'[c].addr = addr
      /\ ctr'[c].code = ctr[c].code /\ ctr' \in [Containers -> CtrType]
  <2>1. ctr \in [Containers -> CtrType] /\ ctr[c] \in CtrType
    BY <1>1, Typed
  <2> DEFINE k == [ctr[c] EXCEPT !.state = state, !.addr = addr, !.token = {t}]
  <2>2. k \in CtrType /\ k.state = state /\ k.token = {t} /\ k.addr = addr
        /\ k.code = ctr[c].code
    BY <2>1 DEF CtrType
  <2>3. ctr' = [ctr EXCEPT ![c] = k]
    BY DEF Start
  <2> HIDE DEF k
  <2>4. QED
    BY <2>1, <2>2, <2>3
<1>5. t = <<a, t[2]>> /\ t[2] \in Nat
  BY Bounds
<1>6. TypeOK'
  BY <1>1, <1>3, <1>4 DEF TypeOK
<1>7. TokenInv'
  BY <1>1, <1>4 DEF BuildInv, TokenInv, Alive
<1>8. OneInv'
  <2>1. ASSUME NEW d \in Containers, NEW e \in Containers, NEW u \in Tokens,
               ctr'[d].token = {u}, ctr'[e].token = {u}
        PROVE  d = e
    <3>1. CASE d = c
      BY <1>4, <2>1, <3>1
    <3>2. CASE e = c
      BY <1>4, <2>1, <3>2
    <3>3. CASE d # c /\ e # c
      BY <1>1, <1>4, <2>1, <3>3 DEF BuildInv, OneInv
    <3>4. QED
      BY <3>1, <3>2, <3>3
  <2>2. \A s \in setups' : \A d \in Containers : ctr'[d].token # {s.token}
    BY <1>1, <1>4 DEF BuildInv, OneInv
  <2>3. QED
    BY <1>1, <2>1, <2>2 DEF BuildInv, OneInv
<1>9. UsedInv'
  <2>1. \A u \in Tokens : u[1] \in Analyses /\ u = <<u[1], u[2]>>
    BY Bounds
  <2>2. ASSUME NEW u \in Tokens, u # t, Used(u, {"queued"} \cup Busy)
        PROVE  Used(u, {"queued"} \cup Busy)'
    <3>1. CASE u[1] # a
      BY <2>1, <2>2, <1>3, <3>1 DEF Used
    <3>2. CASE u[1] = a /\ u[2] < job[a].attempt
      BY <1>3, <3>2 DEF Used
    <3>3. CASE u[1] = a /\ u[2] = job[a].attempt
      BY <1>3, <1>5, <2>1, <2>2, <3>3 DEF Used, Busy
    <3>4. QED
      BY <2>1, <2>2, <3>1, <3>2, <3>3 DEF Used
  <2>3. ASSUME NEW u \in Tokens, Used(u, {"queued", "setup"})
        PROVE  Used(u, {"queued", "setup"})'
    BY <2>1, <2>3, <1>3 DEF Used, Busy
  <2>4. Used(t, {"queued", "setup"})'
    BY <1>3 DEF Used
  <2>5. \A s \in setups : s.token \in Tokens
    BY <1>1, Typed
  <2>6. \A d \in Containers, u \in Tokens :
          ctr'[d].token = {u} => Used(u, {"queued", "setup"})'
    BY <1>1, <1>4, <2>3, <2>4 DEF BuildInv, UsedInv
  <2>7. \A s \in setups' : Used(s.token, {"queued"} \cup Busy)'
    BY <1>1, <2>2, <2>5 DEF BuildInv, UsedInv
  <2>8. QED
    BY <2>6, <2>7 DEF UsedInv
<1>10. JobInv'
  <2>1. ASSUME NEW b \in Analyses, b # a PROVE (HeldInv(b) /\ CodeInv(b) /\ LintedInv(b))'
    <3>1. HeldInv(b) /\ CodeInv(b) /\ LintedInv(b) /\ t # Token(b)
      BY <1>1, <1>3, <1>5, <2>1 DEF BuildInv, JobInv
    <3>2. job[b].pc \in Busy => job[b].ctr # c
      <4>1. ctr[c].token = {} /\ ctr[c].state # "gone"
        BY <1>1 DEF BuildInv, TokenInv, Alive
      <4>2. QED
        BY <3>1, <4>1 DEF HeldInv
    <3>3. HeldInv(b)'
      BY <1>3, <1>4, <2>1, <3>1, <3>2 DEF HeldInv
    <3>4. job[b].pc \in Busy => ctr'[job[b].ctr] = ctr[job[b].ctr]
      BY <1>4, <3>1, <3>2 DEF HeldInv
    <3>6. job'[b] = job[b] /\ Token(b)' = Token(b)
      BY <1>3, <2>1
    <3>7. CodeInv(b)'
      BY <3>1, <3>4, <3>6 DEF CodeInv, Busy
    <3>8. LintedInv(b)'
      BY <3>1, <3>6 DEF LintedInv
    <3>5. QED
      BY <3>3, <3>7, <3>8
  <2>2. CASE j.pc \in {"poll", "run"} /\ j.step = "clone" /\ j.ctr = c /\ t[2] = job[a].attempt
    <3>1. t = Token(a)
      BY <1>3, <1>5, <2>2
    <3>2. HeldInv(a)'
      BY <1>3, <1>4, <2>2, <3>1 DEF HeldInv
    <3>3. CodeInv(a)' /\ LintedInv(a)'
      BY <1>3, <2>2 DEF CodeInv, LintedInv, PastCheckout
    <3>4. QED
      BY <2>1, <3>2, <3>3 DEF JobInv
  <2>3. CASE j.pc = "submit" /\ j.linted = {}
    <3>1. (HeldInv(a) /\ CodeInv(a) /\ LintedInv(a))'
      BY <1>3, <2>3 DEF HeldInv, CodeInv, LintedInv, Busy
    <3>2. QED
      BY <2>1, <3>1 DEF JobInv
  <2>4. CASE j = job[a] /\ (t[2] = job[a].attempt => job[a].pc \notin Busy)
    <3>1. HeldInv(a) /\ CodeInv(a) /\ LintedInv(a)
      BY <1>1 DEF BuildInv, JobInv
    <3>2. job[a].pc \in Busy => job[a].ctr # c /\ t # Token(a)
      <4>1. ctr[c].token = {} /\ ctr[c].state # "gone"
        BY <1>1 DEF BuildInv, TokenInv, Alive
      <4>2. job[a].pc \in Busy => job[a].ctr # c
        BY <3>1, <4>1 DEF HeldInv
      <4>3. job[a].pc \in Busy => t # Token(a)
        BY <1>3, <1>5, <2>4
      <4>4. QED
        BY <4>2, <4>3
    <3>3. HeldInv(a)'
      BY <1>3, <1>4, <2>4, <3>1, <3>2 DEF HeldInv
    <3>4. job[a].pc \in Busy => ctr'[job[a].ctr] = ctr[job[a].ctr]
      BY <1>4, <3>1, <3>2 DEF HeldInv
    <3>6. job'[a] = job[a] /\ Token(a)' = Token(a)
      BY <1>3, <2>4
    <3>7. CodeInv(a)'
      BY <3>1, <3>4, <3>6 DEF CodeInv, Busy
    <3>8. LintedInv(a)'
      BY <3>1, <3>6 DEF LintedInv
    <3>5. QED
      BY <2>1, <3>3, <3>7, <3>8 DEF JobInv
  <2>5. QED
    BY <2>2, <2>3, <2>4
<1>11. NothingForgotten'
  <2>1. ASSUME NEW d \in Containers, Alive(d)', d \notin leaked'
        PROVE  \E b \in Analyses : /\ job'[b].ctr = d
                                   /\ job'[b].pc \notin {"queued", "setup", "done"}
                                   /\ ctr'[d].token = {Token(b)'}
    <3>1. CASE d = c
      <4>1. /\ j.pc \in {"poll", "run"} /\ j.ctr = c /\ t[2] = job[a].attempt
        BY <2>1, <3>1
      <4>2. ctr'[d].token = {Token(a)'} /\ job'[a].ctr = d
            /\ job'[a].pc \notin {"queued", "setup", "done"}
        BY <1>3, <1>4, <1>5, <3>1, <4>1
      <4>3. QED
        BY <4>2
    <3>2. CASE d # c
      <4>1. Alive(d) /\ d \notin leaked
        BY <1>4, <2>1, <3>2 DEF Alive
      <4>2. PICK b \in Analyses : /\ job[b].ctr = d
                                  /\ job[b].pc \notin {"queued", "setup", "done"}
                                  /\ ctr[d].token = {Token(b)}
        BY <1>1, <4>1 DEF BuildInv, NothingForgotten
      <4>3. job'[b] = job[b]
        BY <1>3, <4>2
      <4>4. QED
        BY <1>3, <1>4, <3>2, <4>2, <4>3
    <3>3. QED
      BY <3>1, <3>2
  <2>2. QED
    BY <2>1 DEF NothingForgotten
<1>12. QED
  BY <1>6, <1>7, <1>8, <1>9, <1>10, <1>11, <1>1, SameResult DEF IInv, BuildInv, ResultInv

\* A setup's token is its own, and its attempt has not got a container.
LEMMA SetupToken ==
  ASSUME IInv, NEW s \in setups
  PROVE  /\ s.token \in Tokens /\ s.token[1] \in Analyses
         /\ \A u \in setups \ {s} : u.token # s.token
         /\ \A d \in Containers : ctr[d].token # {s.token}
         /\ Awaits(s.token) => /\ job[s.token[1]].pc = "setup"
                               /\ job[s.token[1]].step = "clone"
                               /\ s.token[2] = job[s.token[1]].attempt
         /\ ~Awaits(s.token) =>
              \/ s.token[2] < job[s.token[1]].attempt
              \/ /\ s.token[2] = job[s.token[1]].attempt
                 /\ job[s.token[1]].pc \notin {"queued", "setup"} \cup Busy
<1>1. TypeOK /\ BuildInv
  BY DEF IInv
<1>2. s.token \in Tokens /\ s.token[1] \in Analyses /\ s.token = <<s.token[1], s.token[2]>>
      /\ Token(s.token[1]) = <<s.token[1], job[s.token[1]].attempt>>
      /\ job[s.token[1]].attempt \in Nat /\ s.token[2] \in Nat
  BY <1>1, Typed
<1>3. CodeInv(s.token[1]) /\ Used(s.token, {"queued"} \cup Busy)
  BY <1>1, <1>2 DEF BuildInv, JobInv, UsedInv
<1>4. Awaits(s.token) => /\ job[s.token[1]].pc = "setup"
                         /\ job[s.token[1]].step = "clone"
                         /\ s.token[2] = job[s.token[1]].attempt
  BY <1>2, <1>3 DEF Awaits, CodeInv
<1>5. s.token[2] = job[s.token[1]].attempt => Token(s.token[1]) = s.token
  BY <1>2
<1>6. ASSUME ~Awaits(s.token)
      PROVE  \/ s.token[2] < job[s.token[1]].attempt
             \/ /\ s.token[2] = job[s.token[1]].attempt
                /\ job[s.token[1]].pc \notin {"queued", "setup"} \cup Busy
  BY <1>3, <1>5, <1>6 DEF Used, Awaits
<1>7. QED
  BY <1>1, <1>2, <1>4, <1>6 DEF BuildInv, OneInv

LEMMA AddressType == \A d \in Ports \cup IPs : {d} \in Addresses
BY DEF Addresses

LEMMA DockerRunStep ==
  ASSUME IInv, NEW s \in setups, DockerRun(s) PROVE IInv'
<1>1. TypeOK
  BY DEF IInv
<1>2. PICK c \in Unstarted, d \in Ports :
        /\ Start(c, "up", {d}, s.token)
        /\ IF Awaits(s.token)
           THEN /\ job' = [job EXCEPT ![s.token[1]].pc = "run",
                                      ![s.token[1]].ctr = c,
                                      ![s.token[1]].addr = {d}]
                /\ UNCHANGED leaked
           ELSE /\ leaked' = leaked \cup {c}
                /\ UNCHANGED job
        /\ setups' = setups \ {s} /\ UNCHANGED result
  BY DEF DockerRun
<1>3. PICK t \in Tokens : t = s.token
  BY SetupToken
<1>4. PICK a \in Analyses : a = t[1]
  BY <1>3, SetupToken
<1>5. /\ \A u \in setups \ {s} : u.token # t
      /\ \A e \in Containers : ctr[e].token # {t}
      /\ Awaits(s.token) => /\ job[a].pc = "setup" /\ job[a].step = "clone"
                            /\ t[2] = job[a].attempt
      /\ ~Awaits(s.token) => \/ t[2] < job[a].attempt
                             \/ /\ t[2] = job[a].attempt
                                /\ job[a].pc \notin {"queued", "setup"} \cup Busy
  BY <1>3, <1>4, SetupToken
<1>6. c \in Containers /\ ctr[c].state = "none" /\ {d} \in Addresses
      /\ Start(c, "up", {d}, t)
  BY <1>2, <1>3, AddressType DEF Unstarted
<1>7. CASE Awaits(s.token)
  <2> DEFINE j == [job[a] EXCEPT !.pc = "run", !.ctr = c, !.addr = {d}]
  <2>1. j \in JobType /\ j.pc = "run" /\ j.attempt = job[a].attempt /\ j.ctr = c
        /\ j.step = job[a].step
    BY <1>1, <1>6, JobTypes DEF JobType
  <2>2. job' = [job EXCEPT ![a] = j]
    <3>1. job \in [Analyses -> JobType] /\ job[a] \in JobType
      BY <1>1, JobTypes
    <3>2. job' = [job EXCEPT ![a].pc = "run", ![a].ctr = c, ![a].addr = {d}]
      BY <1>2, <1>3, <1>4, <1>7
    <3>3. /\ DOMAIN job' = Analyses /\ job'[a] = j
          /\ \A b \in Analyses : b # a => job'[b] = job[b]
      BY <3>1, <3>2
    <3> HIDE DEF j
    <3>4. job' = [b \in Analyses |-> job'[b]]
      BY <3>1, <3>2
    <3>5. QED
      BY <3>1, <3>3, <3>4
  <2> HIDE DEF j
  <2>3. /\ leaked \subseteq leaked' /\ leaked' \subseteq leaked \cup {c}
        /\ setups' \subseteq setups /\ \A u \in setups' : u.token # t
        /\ UNCHANGED result
    BY <1>2, <1>5, <1>7
  <2>4. /\ t[2] = job[a].attempt /\ j.pc \notin {"queued", "setup"} /\ j.step = "clone"
        /\ j.pc \in {"poll", "run"} /\ job[a].pc \in {"queued", "setup"}
    BY <1>5, <1>7, <2>1
  <2>5. QED
    BY <1>4, <1>5, <1>6, <2>1, <2>2, <2>3, <2>4, NewContainer
<1>8. CASE ~Awaits(s.token)
  <2>1. job[a] \in JobType /\ job' = [job EXCEPT ![a] = job[a]]
    BY <1>1, <1>2, <1>8, JobTypes
  <2>2. t[2] = job[a].attempt => job[a].pc \notin Busy
    BY <1>5, <1>8, AttemptBound, <1>1
  <2>3. \/ t[2] < job[a].attempt
        \/ t[2] = job[a].attempt /\ job[a].pc \notin {"queued", "setup"}
    BY <1>5, <1>8
  <2>4. QED
    BY <1>2, <1>4, <1>5, <1>6, <1>8, <2>1, <2>2, <2>3, NewContainer
<1>9. QED
  BY <1>7, <1>8

LEMMA SetupTimesOutStep ==
  ASSUME IInv, NEW s \in setups, SetupTimesOut(s) PROVE IInv'
<1>1. TypeOK
  BY DEF IInv
<1>2. PICK t \in Tokens : t = s.token
  BY SetupToken
<1>3. PICK a \in Analyses : a = t[1]
  BY <1>2, SetupToken
<1>4. /\ \A u \in setups \ {s} : u.token # t
      /\ \A e \in Containers : ctr[e].token # {t}
      /\ Awaits(s.token) => job[a].pc = "setup" /\ t[2] = job[a].attempt
      /\ ~Awaits(s.token) => \/ t[2] < job[a].attempt
                             \/ /\ t[2] = job[a].attempt
                                /\ job[a].pc \notin {"queued", "setup"} \cup Busy
      /\ Awaits(s.token) => Fail(a, "executor")
      /\ ~Awaits(s.token) => UNCHANGED job
      /\ setups' = setups \ {s} /\ UNCHANGED result
  BY <1>2, <1>3, SetupToken DEF SetupTimesOut
<1>5. CASE UNCHANGED <<ctr, leaked>>
  <2>1. CASE Awaits(s.token)
    BY <1>4, <1>5, <2>1, FailStep DEF Failures
  <2>2. CASE ~Awaits(s.token)
    BY <1>4, <1>5, <2>2, SetupDropped
  <2>3. QED
    BY <2>1, <2>2
<1>6. ASSUME NEW c \in Unstarted, NEW d \in Ports, Start(c, "up", {d}, s.token),
             leaked' = leaked \cup {c}
      PROVE  IInv'
  <2>1. c \in Containers /\ ctr[c].state = "none" /\ {d} \in Addresses
        /\ Start(c, "up", {d}, t)
    BY <1>2, <1>6, AddressType DEF Unstarted
  <2>2. CASE Awaits(s.token)
    <3>1. job' = [job EXCEPT ![a] = Failed(a, "executor")] /\ "executor" \in Failures
      BY <1>4, <2>2 DEF Fail, Failures
    <3> DEFINE j == Failed(a, "executor")
    <3>2. j \in JobType /\ j.pc = "submit" /\ j.attempt = job[a].attempt /\ j.linted = {}
      BY <1>1, <3>1, FailedType
    <3>3. job' = [job EXCEPT ![a] = j]
      BY <3>1
    <3> HIDE DEF j
    <3>4. QED
      BY <1>3, <1>4, <1>6, <2>1, <2>2, <3>2, <3>3, NewContainer
  <2>3. CASE ~Awaits(s.token)
    <3>1. job[a] \in JobType /\ job' = [job EXCEPT ![a] = job[a]]
      BY <1>1, <1>4, <2>3, JobTypes
    <3>2. t[2] = job[a].attempt => job[a].pc \notin Busy
      BY <1>1, <1>4, <2>3, AttemptBound
    <3>3. \/ t[2] < job[a].attempt
          \/ t[2] = job[a].attempt /\ job[a].pc \notin {"queued", "setup"}
      BY <1>4, <2>3
    <3>4. QED
      BY <1>3, <1>4, <1>6, <2>1, <2>3, <3>1, <3>2, <3>3, NewContainer
  <2>4. QED
    BY <2>2, <2>3
<1>7. QED
  BY <1>5, <1>6 DEF SetupTimesOut

LEMMA RunTaskStep ==
  ASSUME IInv, NEW a \in Analyses, RunTask(a) PROVE IInv'
<1>1. TypeOK /\ BuildInv /\ job[a].pc = "queued" /\ CodeInv(a)
      /\ UNCHANGED <<result, setups>>
  BY DEF IInv, BuildInv, JobInv, RunTask
<1>2. PICK t \in Tokens : t = Token(a)
  BY <1>1, Typed
<1>3. t[1] = a /\ t[2] = job[a].attempt /\ t[2] \in Nat
  BY <1>1, <1>2, Typed, AttemptBound
<1>4. ~Used(t, {"queued"} \cup Busy) /\ ~Used(t, {"queued", "setup"})
  BY <1>1, <1>3 DEF Used
<1>5. (\A s \in setups : s.token # t) /\ (\A d \in Containers : ctr[d].token # {t})
  BY <1>1, <1>4 DEF BuildInv, UsedInv
<1> DEFINE f == Failed(a, "executor")
<1>6. f \in JobType /\ f.pc = "submit" /\ f.attempt = job[a].attempt /\ f.linted = {}
      /\ f.ctr = job[a].ctr
  BY <1>1, FailedType, "executor" \in Failures DEF Failures
<1>7. Fail(a, "executor") => job' = [job EXCEPT ![a] = f]
  BY DEF Fail
<1> HIDE DEF f
<1>8. ASSUME NEW c \in Unstarted, Start(c, "starting", {}, Token(a)),
             \/ /\ job' = [job EXCEPT ![a].pc = "poll", ![a].ctr = c,
                                      ![a].kind = "fargate"]
                /\ UNCHANGED leaked
             \/ /\ Fail(a, "executor")
                /\ leaked' = leaked \cup {c}
      PROVE  IInv'
  <2>1. c \in Containers /\ ctr[c].state = "none" /\ {} \in Addresses
        /\ Start(c, "starting", {}, t)
    BY <1>2, <1>8 DEF Unstarted, Addresses
  <2>2. CASE job' = [job EXCEPT ![a].pc = "poll", ![a].ctr = c, ![a].kind = "fargate"]
             /\ UNCHANGED leaked
    <3> DEFINE j == [job[a] EXCEPT !.pc = "poll", !.ctr = c, !.kind = "fargate"]
    <3>1. j \in JobType /\ j.pc = "poll" /\ j.attempt = job[a].attempt /\ j.ctr = c
          /\ j.step = job[a].step
      BY <1>1, <2>1, JobTypes DEF JobType, Kinds
    <3>2. job' = [job EXCEPT ![a] = j]
      <4>1. job \in [Analyses -> JobType] /\ job[a] \in JobType
        BY <1>1, JobTypes
      <4>2. /\ DOMAIN job' = Analyses /\ job'[a] = j
            /\ \A b \in Analyses : b # a => job'[b] = job[b]
        BY <4>1, <2>2
      <4> HIDE DEF j
      <4>3. job' = [b \in Analyses |-> job'[b]]
        BY <4>1, <2>2
      <4>4. QED
        BY <4>1, <4>2, <4>3
    <3>3. j.step = "clone"
      BY <1>1, <3>1 DEF CodeInv
    <3> HIDE DEF j
    <3>4. /\ leaked \subseteq leaked' /\ leaked' \subseteq leaked \cup {c}
          /\ setups' \subseteq setups /\ \A u \in setups' : u.token # t
          /\ UNCHANGED result
      BY <1>1, <1>5, <2>2
    <3>5. /\ t[2] = job[a].attempt /\ j.pc \notin {"queued", "setup"} /\ j.step = "clone"
          /\ j.pc \in {"poll", "run"} /\ job[a].pc \in {"queued", "setup"}
      BY <1>1, <1>3, <3>1, <3>3
    <3>6. QED
      BY <1>3, <1>5, <2>1, <3>1, <3>2, <3>4, <3>5, NewContainer
  <2>3. CASE Fail(a, "executor") /\ leaked' = leaked \cup {c}
    BY <1>1, <1>3, <1>5, <1>6, <1>7, <2>1, <2>3, NewContainer
  <2>4. QED
    BY <1>8, <2>2, <2>3
<1>9. ASSUME Fail(a, "executor"), UNCHANGED <<ctr, leaked>>
      PROVE  IInv'
  BY <1>1, <1>6, <1>7, <1>9, JobStep, SameResult
<1>10. QED
  BY <1>8, <1>9 DEF RunTask

(***************************************************************************)
(* Steps of containers, and commands that change what is in one            *)
(***************************************************************************)

LEMMA TaskStartsStep ==
  ASSUME IInv, NEW c \in Containers, TaskStarts(c) PROVE IInv'
<1>1. TypeOK /\ BuildInv /\ ctr[c].state = "starting"
      /\ UNCHANGED <<job, result, setups, leaked>>
  BY DEF IInv, TaskStarts
<1>2. PICK d \in IPs : ctr' = [ctr EXCEPT ![c].state = "up", ![c].addr = {d}]
  BY DEF TaskStarts
<1>3. /\ \A e \in Containers : e # c => ctr'[e] = ctr[e]
      /\ ctr'[c].state = "up" /\ ctr'[c].token = ctr[c].token
      /\ ctr'[c].code = ctr[c].code /\ ctr' \in [Containers -> CtrType]
  <2>1. ctr \in [Containers -> CtrType] /\ ctr[c] \in CtrType /\ {d} \in Addresses
    BY <1>1, Typed, AddressType
  <2>2. ctr'[c] = [ctr[c] EXCEPT !.state = "up", !.addr = {d}]
        /\ \A e \in Containers : e # c => ctr'[e] = ctr[e]
    BY <1>2, <2>1
  <2>3. [ctr[c] EXCEPT !.state = "up", !.addr = {d}] \in CtrType
    BY <2>1 DEF CtrType
  <2>4. ctr' = [e \in Containers |-> ctr'[e]]
    BY <1>2, <2>1
  <2>5. \A e \in Containers : ctr'[e] \in CtrType
    BY <2>1, <2>2, <2>3
  <2>6. ctr' \in [Containers -> CtrType]
    BY <2>4, <2>5
  <2>7. QED
    BY <2>1, <2>2, <2>6 DEF CtrType
<1>4. \A e \in Containers : /\ ctr'[e].token = ctr[e].token /\ ctr'[e].code = ctr[e].code
                            /\ Alive(e)' <=> Alive(e)
                            /\ ctr'[e].state = "gone" <=> ctr[e].state = "gone"
  BY <1>1, <1>3 DEF Alive
<1>5. TypeOK'
  BY <1>1, <1>3 DEF TypeOK, Token
<1>6. TokenInv' /\ OneInv' /\ UsedInv'
  BY <1>1, <1>4 DEF BuildInv, TokenInv, OneInv, UsedInv, Used
<1>7. JobInv'
  <2>1. ASSUME NEW a \in Analyses PROVE (HeldInv(a) /\ CodeInv(a) /\ LintedInv(a))'
    <3>1. HeldInv(a) /\ CodeInv(a) /\ LintedInv(a) /\ job'[a] = job[a] /\ Token(a)' = Token(a)
      BY <1>1 DEF BuildInv, JobInv, Token
    <3>2. HeldInv(a)'
      BY <1>4, <3>1 DEF HeldInv
    <3>3. CodeInv(a)'
      BY <1>4, <3>1 DEF CodeInv, HeldInv, Busy
    <3>4. LintedInv(a)'
      BY <3>1 DEF LintedInv
    <3>5. QED
      BY <3>2, <3>3, <3>4
  <2>2. QED
    BY <2>1 DEF JobInv
<1>8. NothingForgotten'
  BY <1>1, <1>4 DEF BuildInv, NothingForgotten, Token
<1>9. QED
  BY <1>1, <1>5, <1>6, <1>7, <1>8, SameResult DEF IInv, BuildInv, ResultInv

\* Containers end: nobody loses one that is not in killed.
LEMMA Killed ==
  ASSUME IInv, NEW killed \in SUBSET Containers,
         \A c \in killed : Alive(c),
         ctr' = [c \in Containers |-> IF c \in killed THEN Gone ELSE ctr[c]]
  PROVE  /\ ctr' \in [Containers -> CtrType]
         /\ \A c \in Containers \ killed : ctr'[c] = ctr[c] /\ (Alive(c)' <=> Alive(c))
         /\ \A c \in killed : ctr'[c].token = {} /\ ctr'[c].state = "gone" /\ ~Alive(c)'
         /\ \A c \in Containers : ctr'[c].token \in {{}, ctr[c].token}
<1>1. ctr \in [Containers -> CtrType]
  BY Typed DEF IInv
<1>2. QED
  BY <1>1, GoneType DEF Alive

LEMMA ContainerEndsStep ==
  ASSUME IInv, NEW c \in Containers, ContainerEnds(c) PROVE IInv'
<1>1. TypeOK /\ BuildInv /\ Alive(c)
      /\ leaked' = leaked \ {c} /\ UNCHANGED <<job, result, setups>>
      /\ ctr' = [ctr EXCEPT ![c] = Gone] /\ ctr \in [Containers -> CtrType]
  BY Typed DEF IInv, ContainerEnds
<1>2. ctr' = [d \in Containers |-> IF d \in {c} THEN Gone ELSE ctr[d]]
  BY <1>1
<1>3. /\ ctr' \in [Containers -> CtrType]
      /\ \A d \in Containers \ {c} : ctr'[d] = ctr[d] /\ (Alive(d)' <=> Alive(d))
      /\ ctr'[c].token = {} /\ ctr'[c].state = "gone" /\ ~Alive(c)'
  BY <1>1, <1>2, Killed
<1>4. TypeOK'
  BY <1>1, <1>3 DEF TypeOK, Token
<1>5. TokenInv' /\ OneInv' /\ UsedInv'
  <2>1. \A d \in Containers : ctr'[d].token # {} => d # c /\ ctr'[d] = ctr[d]
    BY <1>3
  <2>2. TokenInv'
    BY <1>1, <1>3 DEF BuildInv, TokenInv
  <2>3. OneInv'
    BY <1>1, <2>1 DEF BuildInv, OneInv
  <2>4. UsedInv'
    BY <1>1, <2>1 DEF BuildInv, UsedInv, Used
  <2>5. QED
    BY <2>2, <2>3, <2>4
<1>6. JobInv'
  <2>1. ASSUME NEW a \in Analyses PROVE (HeldInv(a) /\ CodeInv(a) /\ LintedInv(a))'
    <3>1. HeldInv(a) /\ CodeInv(a) /\ LintedInv(a) /\ job'[a] = job[a] /\ Token(a)' = Token(a)
      BY <1>1 DEF BuildInv, JobInv, Token
    <3>2. HeldInv(a)'
      BY <1>3, <3>1 DEF HeldInv
    <3>3. CodeInv(a)'
      BY <1>3, <3>1 DEF CodeInv, HeldInv, Busy
    <3>4. LintedInv(a)'
      BY <3>1 DEF LintedInv
    <3>5. QED
      BY <3>2, <3>3, <3>4
  <2>2. QED
    BY <2>1 DEF JobInv
<1>7. NothingForgotten'
  <2>1. ASSUME NEW d \in Containers, Alive(d)', d \notin leaked'
        PROVE  d # c /\ Alive(d) /\ d \notin leaked /\ ctr'[d] = ctr[d]
    BY <1>1, <1>3, <2>1
  <2>2. QED
    BY <1>1, <2>1 DEF BuildInv, NothingForgotten, Token
<1>8. QED
  BY <1>1, <1>4, <1>5, <1>6, <1>7, SameResult DEF IInv, BuildInv, ResultInv

\* A clone or a checkout
LEMMA CodeStep ==
  ASSUME IInv, NEW a \in Analyses, Ends(a), Succeeds(a),
         NEW code \in Lints, ctr' = [ctr EXCEPT ![job[a].target].code = code],
         job[a].step = "clone" \/ (job[a].step = "checkout" /\ code = Code(a, Pinned)),
         UNCHANGED <<result, setups, leaked>>
  PROVE  IInv'
<1>1. TypeOK /\ BuildInv /\ HeldInv(a) /\ CodeInv(a) /\ job[a].pc = "wait"
      /\ ctr[job[a].target].state = "up"
  BY DEF IInv, BuildInv, JobInv, Ends
<1>2. PICK c \in Containers : c = job[a].ctr
  BY <1>1 DEF HeldInv, Busy
<1>3. job[a].target = c /\ ctr[c].token = {Token(a)} /\ ctr[c].state = "up"
  BY <1>1, <1>2 DEF HeldInv, CodeInv, Busy
<1>4. /\ \A d \in Containers : d # c => ctr'[d] = ctr[d]
      /\ ctr'[c].code = code /\ ctr' \in [Containers -> CtrType]
      /\ \A d \in Containers : ctr'[d].state = ctr[d].state /\ ctr'[d].token = ctr[d].token
  <2>1. ctr \in [Containers -> CtrType] /\ ctr[c] \in CtrType
    BY <1>1, Typed
  <2> DEFINE k == [ctr[c] EXCEPT !.code = code]
  <2>2. k \in CtrType /\ k.code = code /\ k.state = ctr[c].state /\ k.token = ctr[c].token
    BY <2>1 DEF CtrType
  <2>3. ctr' = [ctr EXCEPT ![c] = k]
    BY <1>3
  <2> HIDE DEF k
  <2>4. QED
    BY <2>1, <2>2, <2>3
<1> DEFINE j == [job[a] EXCEPT !.pc = "run", !.step = NextStep[@]]
<1>5. /\ NextStep[job[a].step] \in Steps
      /\ NextStep[job[a].step] \in PastCheckout => job[a].step = "checkout"
  BY DEF NextStep, Steps, PastCheckout
<1>6. j \in JobType /\ j.pc = "run" /\ j.attempt = job[a].attempt /\ j.ctr = job[a].ctr
      /\ (j.step \in PastCheckout => code = Code(a, Pinned))
  <2>1. "checkout" # "clone"
    OBVIOUS
  <2>2. QED
    BY <1>1, <1>5, <2>1, JobTypes DEF JobType
<1>7. job' = [job EXCEPT ![a] = j]
  BY <1>1, JobTypes DEF Succeeds
<1>8. j.attempt <= MaxAttempts[a]
  BY <1>1, <1>6, AttemptBound
<1> HIDE DEF j
<1>9. /\ job' \in [Analyses -> JobType] /\ job'[a] = j
      /\ \A b \in Analyses : b # a => job'[b] = job[b]
      /\ \A b \in Analyses : Token(b)' = Token(b) /\ Token(b)' \in Tokens
      /\ \A b \in Analyses : job'[b].attempt = job[b].attempt
      /\ \A b \in Analyses : Token(b) = <<b, job[b].attempt>>
  BY <1>1, <1>6, <1>7, <1>8, JobTyped DEF Token
<1>10. TypeOK'
  BY <1>1, <1>4, <1>9 DEF TypeOK
<1>11. TokenInv' /\ OneInv'
  BY <1>1, <1>4 DEF BuildInv, TokenInv, OneInv, Alive
<1>12. UsedInv'
  <2>1. \A t \in Tokens : t[1] \in Analyses
    BY Bounds
  <2>2. ASSUME NEW t \in Tokens, Used(t, {"queued"} \cup Busy)
        PROVE  Used(t, {"queued"} \cup Busy)'
    BY <2>1, <2>2, <1>1, <1>6, <1>9 DEF Used, Busy
  <2>3. ASSUME NEW t \in Tokens, Used(t, {"queued", "setup"})
        PROVE  Used(t, {"queued", "setup"})'
    BY <2>1, <2>3, <1>1, <1>6, <1>9 DEF Used, Busy
  <2>4. \A s \in setups : s.token \in Tokens
    BY <1>1, Typed
  <2>5. QED
    BY <1>1, <1>4, <2>2, <2>3, <2>4 DEF BuildInv, UsedInv
<1>13. JobInv'
  <2>1. ASSUME NEW b \in Analyses, b # a PROVE (HeldInv(b) /\ CodeInv(b) /\ LintedInv(b))'
    <3>1. HeldInv(b) /\ CodeInv(b) /\ LintedInv(b) /\ Token(b) # Token(a)
          /\ job'[b] = job[b] /\ Token(b)' = Token(b)
      BY <1>1, <1>9, <2>1 DEF BuildInv, JobInv
    <3>2. HeldInv(b)'
      BY <1>4, <3>1 DEF HeldInv
    <3>3. job[b].pc \in Busy /\ ctr[job[b].ctr].token = {Token(b)}
            => ctr'[job[b].ctr] = ctr[job[b].ctr]
      BY <1>3, <1>4, <3>1 DEF HeldInv
    <3>4. job[b].pc \in Busy => ctr'[job[b].ctr].token = ctr[job[b].ctr].token
      BY <1>4, <3>1 DEF HeldInv
    <3>5. CodeInv(b)'
      BY <3>1, <3>3, <3>4 DEF CodeInv, Busy
    <3>6. LintedInv(b)'
      BY <3>1 DEF LintedInv
    <3>7. QED
      BY <3>2, <3>5, <3>6
  <2>2. HeldInv(a)'
    BY <1>1, <1>2, <1>4, <1>6, <1>9 DEF HeldInv, Busy
  <2>3. CodeInv(a)' /\ LintedInv(a)'
    BY <1>2, <1>4, <1>6, <1>9 DEF CodeInv, LintedInv
  <2>4. QED
    BY <2>1, <2>2, <2>3 DEF JobInv
<1>14. NothingForgotten'
  <2>1. \A d \in Containers : Alive(d)' <=> Alive(d)
    BY <1>4 DEF Alive
  <2>2. \A b \in Analyses : /\ job'[b].ctr = job[b].ctr
                            /\ job[b].pc \notin {"queued", "setup", "done"}
                                 => job'[b].pc \notin {"queued", "setup", "done"}
    BY <1>6, <1>9
  <2>3. QED
    BY <1>1, <1>4, <1>9, <2>1, <2>2 DEF BuildInv, NothingForgotten
<1>15. QED
  BY <1>1, <1>10, <1>11, <1>12, <1>13, <1>14, SameResult DEF IInv, BuildInv, ResultInv

LEMMA CloneStep ==
  ASSUME IInv, NEW a \in Analyses, Clone(a) PROVE IInv'
<1>1. CASE UNCHANGED ctr /\ \E e \in {"not_found", "command"} : Fail(a, e)
  BY <1>1, FailStep DEF Clone, Ends, Failures, Busy
<1>2. ASSUME Succeeds(a), NEW n \in Commits,
             ctr' = [ctr EXCEPT ![job[a].target].code = Code(a, n)]
      PROVE  IInv'
  <2>1. Code(a, n) \in Lints
    BY DEF Lints
  <2>2. QED
    BY <1>2, <2>1, CodeStep DEF Clone
<1>3. QED
  BY <1>1, <1>2 DEF Clone

LEMMA CheckoutStep ==
  ASSUME IInv, NEW a \in Analyses, Checkout(a) PROVE IInv'
<1>1. CASE UNCHANGED ctr /\ \E e \in {"not_found", "command"} : Fail(a, e)
  BY <1>1, FailStep DEF Checkout, Ends, Failures, Busy
<1>2. CASE Succeeds(a) /\ ctr' = [ctr EXCEPT ![job[a].target].code = Code(a, Pinned)]
  <2>1. Code(a, Pinned) \in Lints
    BY Bounds DEF Lints
  <2>2. QED
    BY <1>2, <2>1, CodeStep DEF Checkout
<1>3. QED
  BY <1>1, <1>2 DEF Checkout

(***************************************************************************)
(* The end of an attempt                                                   *)
(***************************************************************************)

\* The next attempt is queued, or there is none; the container is ended or
\* leaked.
LEMMA OverStep ==
  ASSUME IInv, NEW a \in Analyses, job[a].pc \notin {"queued", "done"},
         NEW killed \in SUBSET Held(a),
         ctr' = [c \in Containers |-> IF c \in killed THEN Gone ELSE ctr[c]],
         leaked' = leaked \cup (Held(a) \ killed),
         UNCHANGED <<result, setups>>,
         job' = [job EXCEPT ![a] = Redelivered(a)]
         \/ job' = [job EXCEPT ![a] = [Queued(job[a].attempt) EXCEPT !.pc = "done"]]
  PROVE  IInv'
<1>1. TypeOK /\ BuildInv /\ job[a].attempt \in Nat \ {0}
      /\ job[a].attempt <= MaxAttempts[a] /\ MaxAttempts[a] \in Nat
  BY AttemptBound, Bounds DEF IInv
<1>2. PICK j \in JobType :
        /\ job' = [job EXCEPT ![a] = j] /\ j.attempt <= MaxAttempts[a] /\ j.step = "clone"
        /\ \/ j.pc = "queued" /\ j.attempt = job[a].attempt + 1
           \/ j.pc = "done" /\ j.attempt = job[a].attempt
  <2>1. CASE job' = [job EXCEPT ![a] = Queued(job[a].attempt + 1)]
             /\ job[a].attempt < MaxAttempts[a]
    <3>1. job[a].attempt + 1 \in Nat \ {0}
      BY <1>1
    <3> DEFINE j == Queued(job[a].attempt + 1)
    <3>2. j \in JobType /\ j.pc = "queued" /\ j.attempt = job[a].attempt + 1
          /\ j.step = "clone"
      BY <3>1, QueuedType
    <3>3. job' = [job EXCEPT ![a] = j]
      BY <2>1
    <3> HIDE DEF j
    <3>4. job[a].attempt + 1 <= MaxAttempts[a]
      BY <1>1, <2>1
    <3>5. QED
      BY <3>2, <3>3, <3>4
  <2>2. CASE job' = [job EXCEPT ![a] = [Queued(job[a].attempt) EXCEPT !.pc = "done"]]
    <3> DEFINE j == [Queued(job[a].attempt) EXCEPT !.pc = "done"]
    <3>1. j \in JobType
      BY <1>1, QueuedType
    <3>2. j.pc = "done" /\ j.attempt = job[a].attempt /\ j.step = "clone"
      BY DEF Queued
    <3>3. job' = [job EXCEPT ![a] = j]
      BY <2>2
    <3> HIDE DEF j
    <3>4. QED
      BY <1>1, <3>1, <3>2, <3>3
  <2>3. QED
    BY <2>1, <2>2 DEF Redelivered
<1>3. /\ job' \in [Analyses -> JobType] /\ job'[a] = j
      /\ \A b \in Analyses : b # a => job'[b] = job[b] /\ Token(b)' = Token(b)
      /\ \A b \in Analyses : Token(b)' \in Tokens
      /\ \A b \in Analyses : Token(b) = <<b, job[b].attempt>> /\ job[b].attempt \in Nat
  BY <1>1, <1>2, JobTyped, Typed
<1>4. killed \in SUBSET Containers /\ \A c \in killed : Alive(c)
  BY DEF Held
<1>5. /\ ctr' \in [Containers -> CtrType]
      /\ \A c \in Containers \ killed : ctr'[c] = ctr[c] /\ (Alive(c)' <=> Alive(c))
      /\ \A c \in killed : ctr'[c].token = {} /\ ctr'[c].state = "gone" /\ ~Alive(c)'
  BY <1>4, Killed
<1>6. \A c \in Containers : ctr'[c].token # {} => c \notin killed /\ ctr'[c] = ctr[c]
  BY <1>5
<1>7. TypeOK'
  <2>1. leaked' \subseteq Containers
    BY <1>1 DEF Held, TypeOK
  <2>2. QED
    BY <1>1, <1>3, <1>5, <2>1 DEF TypeOK
<1>8. TokenInv'
  BY <1>1, <1>4, <1>5 DEF BuildInv, TokenInv
<1>9. OneInv'
  BY <1>1, <1>6 DEF BuildInv, OneInv
<1>10. UsedInv'
  <2>1. \A t \in Tokens : t[1] \in Analyses /\ t[2] \in Nat
    BY Bounds
  <2>2. ASSUME NEW t \in Tokens, Used(t, {"queued"} \cup Busy)
        PROVE  Used(t, {"queued"} \cup Busy)'
    BY <2>1, <2>2, <1>1, <1>2, <1>3 DEF Used, Busy
  <2>3. ASSUME NEW t \in Tokens, Used(t, {"queued", "setup"})
        PROVE  Used(t, {"queued", "setup"})'
    BY <2>1, <2>3, <1>1, <1>2, <1>3 DEF Used
  <2>4. \A s \in setups : s.token \in Tokens
    BY <1>1, Typed
  <2>5. QED
    BY <1>1, <1>6, <2>2, <2>3, <2>4 DEF BuildInv, UsedInv
<1>11. JobInv'
  <2>1. ASSUME NEW b \in Analyses, b # a PROVE (HeldInv(b) /\ CodeInv(b) /\ LintedInv(b))'
    <3>1. HeldInv(b) /\ CodeInv(b) /\ LintedInv(b) /\ job'[b] = job[b] /\ Token(b)' = Token(b)
      BY <1>1, <1>3, <2>1 DEF BuildInv, JobInv
    <3>2. HeldInv(b)'
      BY <1>5, <3>1 DEF HeldInv
    <3>3. CodeInv(b)'
      BY <1>6, <3>1 DEF CodeInv, HeldInv, Busy
    <3>4. LintedInv(b)'
      BY <3>1 DEF LintedInv
    <3>5. QED
      BY <3>2, <3>3, <3>4
  <2>2. (HeldInv(a) /\ CodeInv(a) /\ LintedInv(a))'
    BY <1>2, <1>3 DEF HeldInv, CodeInv, LintedInv, Busy
  <2>3. QED
    BY <2>1, <2>2 DEF JobInv
<1>12. NothingForgotten'
  <2>1. ASSUME NEW c \in Containers, Alive(c)', c \notin leaked'
        PROVE  \E b \in Analyses : /\ job'[b].ctr = c
                                   /\ job'[b].pc \notin {"queued", "setup", "done"}
                                   /\ ctr'[c].token = {Token(b)'}
    <3>1. Alive(c) /\ c \notin leaked /\ c \notin Held(a) /\ ctr'[c] = ctr[c]
      BY <1>5, <2>1
    <3>2. PICK b \in Analyses : /\ job[b].ctr = c
                                /\ job[b].pc \notin {"queued", "setup", "done"}
                                /\ ctr[c].token = {Token(b)}
      BY <1>1, <3>1 DEF BuildInv, NothingForgotten
    <3>3. b # a
      BY <3>1, <3>2 DEF Held
    <3>4. job'[b] = job[b] /\ Token(b)' = Token(b)
      BY <1>3, <3>3
    <3>5. QED
      BY <3>1, <3>2, <3>4
  <2>2. QED
    BY <2>1 DEF NothingForgotten
<1>13. QED
  BY <1>1, <1>7, <1>8, <1>9, <1>10, <1>11, <1>12, SameResult DEF IInv, BuildInv, ResultInv

LEMMA CleanStep ==
  ASSUME IInv, NEW a \in Analyses, Clean(a) PROVE IInv'
BY OverStep DEF Clean

LEMMA WorkerDiesStep ==
  ASSUME IInv, NEW a \in Analyses, WorkerDies(a) PROVE IInv'
<1>1. ctr \in [Containers -> CtrType]
  BY Typed DEF IInv
<1>2. ctr' = [c \in Containers |-> IF c \in {} THEN Gone ELSE ctr[c]]
  BY <1>1 DEF WorkerDies
<1>3. leaked' = leaked \cup (Held(a) \ {}) /\ {} \in SUBSET Held(a)
  BY DEF WorkerDies
<1>4. QED
  BY <1>2, <1>3, OverStep DEF WorkerDies

(***************************************************************************)
(* Theorems                                                                *)
(***************************************************************************)

LEMMA StepInv == IInv /\ [Next]_vars => IInv'
<1> SUFFICES ASSUME IInv, [Next]_vars PROVE IInv'
  OBVIOUS
<1>1. ASSUME UNCHANGED vars PROVE IInv'
  BY <1>1, SetupDropped DEF vars
<1>2. ASSUME NEW a \in Analyses, AttemptStep(a) PROVE IInv'
  BY <1>2, SetupContainerStep, RunTaskStep, PollTaskStep, SendCommandStep, SendTooLateStep,
     SubmitResultStep, CleanStep DEF AttemptStep
<1>3. ASSUME NEW a \in Analyses, CommandStep(a) PROVE IInv'
  BY <1>3, CloneStep, CheckoutStep, UpdateSubmodulesStep, GoenvbuildStep, LintStep
     DEF CommandStep
<1>4. ASSUME NEW s \in setups, SetupStep(s) PROVE IInv'
  BY <1>4, DockerRunStep, SetupTimesOutStep, DockerRunFailsStep DEF SetupStep
<1>5. CASE Done
  BY <1>1, <1>5 DEF Done
<1>6. QED
  BY <1>1, <1>2, <1>3, <1>4, <1>5, ConnectionBreaksStep, DeadlinePassesStep,
     WorkerDiesStep, TaskStartsStep, ContainerEndsStep DEF Next

\* In every reachable state the inductive invariant holds.
THEOREM BuildInvariant == Spec => []IInv
<1>1. QED
  BY InitInv, StepInv, PTL DEF Spec

\* Every variable keeps its type (BuildContainer.TypeOK).
THEOREM TypeCorrect == Spec => []TypeOK
<1>1. IInv => TypeOK
  BY DEF IInv
<1>2. QED
  BY <1>1, BuildInvariant, PTL

\* A command runs in the container of its own attempt, whatever addresses are
\* used again (BuildContainer.OwnContainer).
THEOREM CommandsAreOwn == Spec => []OwnContainer
<1>1. IInv => OwnContainer
  BY Bounds DEF IInv, BuildInv, JobInv, HeldInv, CodeInv, OwnContainer, Busy
<1>2. QED
  BY <1>1, BuildInvariant, PTL

\* A container nobody uses was lost by an answer, a crash or a failed shutdown
\* (BuildContainer.NothingForgotten).
THEOREM NoContainerForgotten == Spec => []NothingForgotten
<1>1. IInv => NothingForgotten
  BY DEF IInv, BuildInv
<1>2. QED
  BY <1>1, BuildInvariant, PTL

\* Issues are of the commit that the analysis was put for
\* (BuildContainer.ResultOfCommit).
THEOREM ResultsAreOfCommits == Spec => []ResultOfCommit
<1>1. IInv => ResultOfCommit
  BY DEF IInv, BuildInv
<1>2. QED
  BY <1>1, BuildInvariant, PTL

=============================================================================
