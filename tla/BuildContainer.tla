--------------------------- MODULE BuildContainer ---------------------------
(***************************************************************************)
(* Running a repository analysis in a build container.                     *)
(*                                                                         *)
(* Every attempt of a worker to run an analysis gets a container of its own*)
(* with a build runner in it: from the orchestrator (pkg/buildagent), which*)
(* starts it with Docker on a random local port and forwards commands to   *)
(* that port, or from AWS Fargate, with a public IP.  The worker           *)
(* (pkg/worker) clones the repository into it, checks out the commit,      *)
(* prepares the environment with goenvbuild and runs golangci-lint, one    *)
(* command at a time, each over HTTP; then it saves the result and cleans  *)
(* up.  The containers' build runners end after a maximal lifetime.        *)
(*                                                                         *)
(* What is outside an attempt (queue, status API) is in RepoAnalysis and   *)
(* WorkQueue: here a failed attempt is simply run again.                   *)
(***************************************************************************)
EXTENDS Naturals

CONSTANTS
  Analyses,      \* analyses of distinct repositories
  Ports,         \* local ports the orchestrator picks from
  IPs,           \* public addresses of Fargate tasks
  SetupTries,    \* attemptsN of setupContainer
  MaxAttempts,   \* receives left of an analysis' message: then it is given up
  MaxContainers, \* bound: containers ever started
  MaxCommits     \* bound: commits a branch has had

ASSUME BuildAssumption ==
  /\ SetupTries \in Nat \ {0}
  /\ MaxAttempts \in [Analyses -> Nat \ {0}]
  /\ MaxContainers \in Nat \ {0}
  /\ MaxCommits \in Nat \ {0}
  /\ Ports \cap IPs = {}

\* A build token for every setup.
Tokens == {t \in Analyses \X Nat : t[2] \in 1..MaxAttempts[t[1]]}
Containers == 1..MaxContainers
NoContainer == 0
Commits == 1..MaxCommits
Pinned == 1                     \* the commit an analysis was put for
Kinds == {"container", "fargate"}

VARIABLES
  job,     \* the worker's attempt to run an analysis
  result,  \* what the status API has for an analysis
  setups,  \* setup requests the orchestrator is handling
  ctr,     \* containers
  leaked   \* containers that no one knows of or could shut down

vars == <<job, result, setups, ctr, leaked>>

-----------------------------------------------------------------------------
Steps == {"clone", "checkout", "submodules", "goenvbuild", "lint"}
NextStep == [clone |-> "checkout", checkout |-> "submodules",
             submodules |-> "goenvbuild", goenvbuild |-> "lint"]

\* How an attempt ended: "executor" is ErrExecutorFail, "deadline" an error of
\* Container.Run, "command" any other failed command.
Failures == {"none", "executor", "deadline", "panic", "command", "not_found",
             "nothing", "bad_input"}

Free == [state |-> "none", addr |-> {}, token |-> {}, code |-> {}]
Gone == [Free EXCEPT !.state = "gone"]

Queued(n) == [pc |-> "queued", attempt |-> n, kind |-> "container",
              ctr |-> NoContainer, addr |-> {}, target |-> NoContainer,
              step |-> "clone", late |-> FALSE, failure |-> "none",
              linted |-> {}]
NoResult == [status |-> "none", code |-> {}]

Init ==
  /\ job = [a \in Analyses |-> Queued(1)]
  /\ result = [a \in Analyses |-> NoResult]
  /\ setups = {}
  /\ ctr = [c \in Containers |-> Free]
  /\ leaked = {}

Token(a) == <<a, job[a].attempt>>
Alive(c) == ctr[c].state \in {"starting", "up"}
Unstarted == {c \in Containers : ctr[c].state = "none"}
AddressFree(d) == \A c \in Containers : ctr[c].addr # {d}

\* The attempt is over: with issues found in code, or with error e.
Ended(a, e, code) ==
  [Queued(job[a].attempt) EXCEPT !.pc = "submit", !.ctr = job[a].ctr,
                                 !.failure = e, !.linted = code]

\* The callers of two commands use the result that an executor does not return
\* with its error.
Failed(a, e) ==
  Ended(a, IF /\ job[a].step \in {"submodules", "lint"}
              /\ e \in {"executor", "deadline"}
           THEN "panic" ELSE e, {})
Fail(a, e) == job' = [job EXCEPT ![a] = Failed(a, e)]

-----------------------------------------------------------------------------
(* Starting a container                                                    *)

\* The worker asks the orchestrator for a container.
SetupContainer(a) ==
  /\ job[a].pc = "queued"
  /\ job' = [job EXCEPT ![a].pc = "setup"]
  /\ setups' = setups \cup {[token |-> Token(a), tries |-> 0]}
  /\ UNCHANGED <<result, ctr, leaked>>

Awaits(token) == job[token[1]].pc = "setup" /\ Token(token[1]) = token

\* A container with the setup's build token at address d.
Start(c, state, addr, token) ==
  ctr' = [ctr EXCEPT ![c] = [@ EXCEPT !.state = state, !.addr = addr,
                                      !.token = {token}]]

\* The handler has a context of its own: it goes on when the worker does not
\* wait any more, and nobody learns of the container.
DockerRun(s) ==
  \E c \in Unstarted, d \in Ports :
    /\ \A u \in Unstarted : c <= u
    /\ AddressFree(d)
    /\ Start(c, "up", {d}, s.token)
    /\ setups' = setups \ {s}
    /\ IF Awaits(s.token)
       THEN /\ job' = [job EXCEPT ![s.token[1]].pc = "run",
                                  ![s.token[1]].ctr = c,
                                  ![s.token[1]].addr = {d}]
            /\ UNCHANGED leaked
       ELSE /\ leaked' = leaked \cup {c}
            /\ UNCHANGED job
    /\ UNCHANGED result

\* The handler's time is up before Docker answers, or the answer is lost: the
\* container may have been started.
SetupTimesOut(s) ==
  /\ \/ UNCHANGED <<ctr, leaked>>
     \/ \E c \in Unstarted, d \in Ports :
          /\ \A u \in Unstarted : c <= u
          /\ AddressFree(d)
          /\ Start(c, "up", {d}, s.token)
          /\ leaked' = leaked \cup {c}
  /\ setups' = setups \ {s}
  /\ IF Awaits(s.token) THEN Fail(s.token[1], "executor") ELSE UNCHANGED job
  /\ UNCHANGED result

\* The port is in use, or Docker fails: another port, and an error at last.
DockerRunFails(s) ==
  /\ IF s.tries + 1 < SetupTries
     THEN /\ setups' = (setups \ {s}) \cup {[s EXCEPT !.tries = @ + 1]}
          /\ UNCHANGED job
     ELSE /\ setups' = setups \ {s}
          /\ IF Awaits(s.token) THEN Fail(s.token[1], "executor")
                                ELSE UNCHANGED job
  /\ UNCHANGED <<result, ctr, leaked>>

\* The same with Fargate, where the answer is the task's id.
RunTask(a) ==
  /\ job[a].pc = "queued"
  /\ \/ \E c \in Unstarted :
          /\ \A u \in Unstarted : c <= u
          /\ Start(c, "starting", {}, Token(a))
          /\ \/ /\ job' = [job EXCEPT ![a].pc = "poll", ![a].ctr = c,
                                      ![a].kind = "fargate"]
                /\ UNCHANGED leaked
             \/ /\ Fail(a, "executor")
                /\ leaked' = leaked \cup {c}
     \/ /\ Fail(a, "executor")
        /\ UNCHANGED <<ctr, leaked>>
  /\ UNCHANGED <<result, setups>>

TaskStarts(c) ==
  /\ ctr[c].state = "starting"
  /\ \E d \in IPs :
       /\ AddressFree(d)
       /\ ctr' = [ctr EXCEPT ![c].state = "up", ![c].addr = {d}]
  /\ UNCHANGED <<job, result, setups, leaked>>

\* waitForContainerStart and getTaskPublicIP.
PollTask(a) ==
  /\ job[a].pc = "poll"
  /\ \/ /\ ctr[job[a].ctr].state = "up"
        /\ job' = [job EXCEPT ![a].pc = "run",
                              ![a].addr = ctr[job[a].ctr].addr]
     \/ Fail(a, "executor")
  /\ UNCHANGED <<result, setups, ctr, leaked>>

-----------------------------------------------------------------------------
(* Running commands in it                                                  *)

Listening(addr) == {c \in Containers : ctr[c].state = "up" /\ ctr[c].addr = addr}

\* Mutant: the build runner does not check the token.
SendCommandUnchecked(a) ==
  /\ job[a].pc = "run"
  /\ ~job[a].late
  /\ \/ \E c \in Listening(job[a].addr) :
          job' = [job EXCEPT ![a].pc = "wait", ![a].target = c]
     \/ /\ Listening(job[a].addr) = {}
        /\ Fail(a, "executor")
  /\ UNCHANGED <<result, setups, ctr, leaked>>

\* The command goes to whatever listens at the address, which refuses it unless
\* it has the build token.  After the deadline nothing is sent.
SendCommand(a) ==
  /\ job[a].pc = "run"
  /\ ~job[a].late
  /\ \/ \E c \in Listening(job[a].addr) :
          /\ ctr[c].token = {Token(a)}
          /\ job' = [job EXCEPT ![a].pc = "wait", ![a].target = c]
     \/ /\ \A c \in Listening(job[a].addr) : ctr[c].token # {Token(a)}
        /\ Fail(a, "executor")
  /\ UNCHANGED <<result, setups, ctr, leaked>>

SendTooLate(a) ==
  /\ job[a].pc = "run"
  /\ job[a].late
  /\ Fail(a, IF job[a].kind = "fargate" THEN "executor" ELSE "deadline")
  /\ UNCHANGED <<result, setups, ctr, leaked>>

\* The runner ends the command and the worker gets its outcome.
Ends(a) ==
  /\ job[a].pc = "wait"
  /\ ctr[job[a].target].state = "up"

Succeeds(a) == job' = [job EXCEPT ![a].pc = "run", ![a].step = NextStep[@]]

Code(a, n) == {<<a, n>>}

\* What the branch has by then is anything: pushes may have added commits,
\* replaced them or deleted the branch.
Clone(a) ==
  /\ Ends(a)
  /\ job[a].step = "clone"
  /\ \/ /\ Succeeds(a)
        /\ \E n \in Commits :
             ctr' = [ctr EXCEPT ![job[a].target].code = Code(a, n)]
     \/ /\ \E e \in {"not_found", "command"} : Fail(a, e)
        /\ UNCHANGED ctr
  /\ UNCHANGED <<result, setups, leaked>>

\* Mutant: a failed checkout is only logged.
CheckoutLogged(a) ==
  /\ Ends(a)
  /\ job[a].step = "checkout"
  /\ Succeeds(a)
  /\ \/ ctr' = [ctr EXCEPT ![job[a].target].code = Code(a, Pinned)]
     \/ UNCHANGED ctr
  /\ UNCHANGED <<result, setups, leaked>>

Checkout(a) ==
  /\ Ends(a)
  /\ job[a].step = "checkout"
  /\ \/ /\ Succeeds(a)
        /\ ctr' = [ctr EXCEPT ![job[a].target].code = Code(a, Pinned)]
     \/ /\ \E e \in {"not_found", "command"} : Fail(a, e)
        /\ UNCHANGED ctr
  /\ UNCHANGED <<result, setups, leaked>>

\* A failed submodule command is only logged.
UpdateSubmodules(a) ==
  /\ Ends(a)
  /\ job[a].step = "submodules"
  /\ Succeeds(a)
  /\ UNCHANGED <<result, setups, ctr, leaked>>

\* Its last step, the preparation of the repository, may fail without failing
\* goenvbuild, unless the user has configured it.
Goenvbuild(a) ==
  /\ Ends(a)
  /\ job[a].step = "goenvbuild"
  /\ Succeeds(a) \/ Fail(a, "command")
  /\ UNCHANGED <<result, setups, ctr, leaked>>

Lint(a) ==
  /\ Ends(a)
  /\ job[a].step = "lint"
  /\ \/ job' = [job EXCEPT ![a] = Ended(a, "none", ctr[job[a].target].code)]
     \/ \E e \in {"command", "nothing", "bad_input"} : Fail(a, e)
  /\ UNCHANGED <<result, setups, ctr, leaked>>

\* The container or the orchestrator is gone, or the connection to it breaks.
ConnectionBreaks(a) ==
  /\ job[a].pc \in {"setup", "wait"}
  /\ Fail(a, "executor")
  /\ UNCHANGED <<result, setups, ctr, leaked>>

\* Mutant: requests are sent without the context.
DeadlineBetween(a) ==
  /\ job[a].pc = "run"
  /\ ~job[a].late
  /\ job' = [job EXCEPT ![a].late = TRUE]
  /\ UNCHANGED <<result, setups, ctr, leaked>>

\* The attempt's context ends, and with it the request that the worker waits
\* for or, between two commands, the next one.
DeadlinePasses(a) ==
  /\ job[a].pc \in {"setup", "poll", "run", "wait"}
  /\ ~job[a].late
  /\ IF job[a].pc = "run" THEN job' = [job EXCEPT ![a].late = TRUE]
                          ELSE Fail(a, "executor")
  /\ UNCHANGED <<result, setups, ctr, leaked>>

-----------------------------------------------------------------------------
(* Ending an attempt                                                       *)

\* errorToStatus.
Status(e) ==
  CASE e \in {"none", "nothing"} -> "processed"
    [] e = "not_found" -> "not_found"
    [] OTHER -> "error"

\* submitResult: an executor's failure is not shown.  The status API may fail.
SubmitResult(a) ==
  /\ job[a].pc = "submit"
  /\ \/ /\ job[a].failure # "executor"
        /\ result' = [result EXCEPT ![a] =
             [status |-> Status(job[a].failure), code |-> job[a].linted]]
     \/ UNCHANGED result
  /\ job' = [job EXCEPT ![a].pc = "clean", ![a].linted = {}]
  /\ UNCHANGED <<setups, ctr, leaked>>

\* isRecoverableError after transformError.
Recoverable(e) == e \in {"executor", "deadline", "panic", "command"}

\* The message is received again until it is a dead letter.
Redelivered(a) == IF job[a].attempt < MaxAttempts[a] THEN Queued(job[a].attempt + 1)
                  ELSE [Queued(job[a].attempt) EXCEPT !.pc = "done"]

\* The container an attempt knows of, if it is still there.
Held(a) == {c \in Containers : c = job[a].ctr /\ Alive(c)}

\* Mutant: the cleanup is not deferred, so that a panic skips it.
CleanUndeferred(a) ==
  /\ job[a].pc = "clean"
  /\ IF job[a].failure = "panic" THEN UNCHANGED <<ctr, leaked>>
     ELSE \E killed \in SUBSET Held(a) :
       /\ ctr' = [c \in Containers |-> IF c \in killed THEN Gone ELSE ctr[c]]
       /\ leaked' = leaked \cup (Held(a) \ killed)
  /\ job' = [job EXCEPT ![a] =
       IF Recoverable(job[a].failure) THEN Redelivered(a)
       ELSE [Queued(job[a].attempt) EXCEPT !.pc = "done"]]
  /\ UNCHANGED <<result, setups>>

\* The deferred cleanup, which knows the container if its setup has succeeded.
\* The orchestrator's kill or the stop of the task may fail.
Clean(a) ==
  /\ job[a].pc = "clean"
  /\ \E killed \in SUBSET Held(a) :
       /\ ctr' = [c \in Containers |-> IF c \in killed THEN Gone ELSE ctr[c]]
       /\ leaked' = leaked \cup (Held(a) \ killed)
  /\ job' = [job EXCEPT ![a] =
       IF Recoverable(job[a].failure) THEN Redelivered(a)
       ELSE [Queued(job[a].attempt) EXCEPT !.pc = "done"]]
  /\ UNCHANGED <<result, setups>>

WorkerDies(a) ==
  /\ job[a].pc \notin {"queued", "done"}
  /\ job' = [job EXCEPT ![a] = Redelivered(a)]
  /\ leaked' = leaked \cup Held(a)
  /\ UNCHANGED <<result, setups, ctr>>

\* Mutant: build runners have no lifetime of their own.
ContainerEndsInUse(c) ==
  /\ Alive(c)
  /\ c \notin leaked
  /\ ctr' = [ctr EXCEPT ![c] = Gone]
  /\ UNCHANGED <<job, result, setups, leaked>>

\* The build runner's lifetime is over, or the container dies before.
ContainerEnds(c) ==
  /\ Alive(c)
  /\ ctr' = [ctr EXCEPT ![c] = Gone]
  /\ leaked' = leaked \ {c}
  /\ UNCHANGED <<job, result, setups>>

-----------------------------------------------------------------------------
AttemptStep(a) ==
  \/ SetupContainer(a) \/ RunTask(a) \/ PollTask(a)
  \/ SendCommand(a) \/ SendTooLate(a)
  \/ SubmitResult(a) \/ Clean(a)

CommandStep(a) ==
  \/ Clone(a) \/ Checkout(a) \/ UpdateSubmodules(a) \/ Goenvbuild(a) \/ Lint(a)

SetupStep(s) == DockerRun(s) \/ SetupTimesOut(s) \/ DockerRunFails(s)

Done ==
  /\ \A a \in Analyses : job[a].pc = "done"
  /\ UNCHANGED vars

Next ==
  \/ \E a \in Analyses :
       \/ AttemptStep(a) \/ CommandStep(a)
       \/ ConnectionBreaks(a) \/ DeadlinePasses(a) \/ WorkerDies(a)
  \/ \E s \in setups : SetupStep(s)
  \/ \E c \in Containers : TaskStarts(c) \/ ContainerEnds(c)
  \/ Done

Spec == Init /\ [][Next]_vars

\* A worker goes on, its context ends, and so does every build runner.  A
\* command may hang.
FairSpec ==
  /\ Spec
  /\ \A a \in Analyses : WF_vars(AttemptStep(a)) /\ WF_vars(DeadlinePasses(a))
  /\ \A c \in Containers : WF_vars(ContainerEnds(c))

-----------------------------------------------------------------------------
(* Properties                                                              *)

Lints == {{}} \cup {Code(a, n) : a \in Analyses, n \in Commits}
Addresses == {{}} \cup {{d} : d \in Ports \cup IPs}

CtrType ==
  [state : {"none", "starting", "up", "gone"}, addr : Addresses,
   token : SUBSET Tokens, code : Lints]

JobType ==
  [pc : {"queued", "setup", "poll", "run", "wait", "submit", "clean", "done"},
   attempt : Nat \ {0}, kind : Kinds, ctr : Containers \cup {NoContainer},
   addr : Addresses, target : Containers \cup {NoContainer}, step : Steps,
   late : BOOLEAN, failure : Failures, linted : Lints]

\* Type invariant.
TypeOK ==
  /\ job \in [Analyses -> JobType]
  /\ \A a \in Analyses : Token(a) \in Tokens
  /\ result \in [Analyses -> [status : {"none", "processed", "error", "not_found"},
                              code : Lints]]
  /\ setups \subseteq [token : Tokens, tries : 0..SetupTries - 1]
  /\ ctr \in [Containers -> CtrType]
  /\ leaked \subseteq Containers

\* A worker's commands run in the container that was set up for its attempt,
\* although the container at its address may have ended meanwhile and another
\* one may have got the port (orchestrator.go, runBuildCommand).
OwnContainer ==
  \A a \in Analyses :
    job[a].pc = "wait" => job[a].target # NoContainer /\ job[a].target = job[a].ctr

\* A container that is not in use by the attempt it was started for is one that
\* a lost answer, a dead worker or a failed shutdown has left (container.go,
\* Clean): cleaning up forgets none and ends no other attempt's.
NothingForgotten ==
  \A c \in Containers :
    Alive(c) /\ c \notin leaked =>
      \E a \in Analyses : /\ job[a].ctr = c
                          /\ job[a].pc \notin {"queued", "setup", "done"}
                          /\ ctr[c].token = {Token(a)}

\* The issues that an analysis shows are of the commit it was put for, whatever
\* was pushed to the branch and wherever the commands ran.
ResultOfCommit ==
  \A a \in Analyses :
    result[a].code # {} => result[a] = [status |-> "processed",
                                        code |-> Code(a, Pinned)]

\* Every analysis comes to an end, although commands, containers and the
\* orchestrator may hang (analyze_repo.go, the context's timeout).
AnalysisEnds == \A a \in Analyses : <>(job[a].pc = "done")

\* No container stays for ever, known or not (cmd/buildrunner, MAX_LIFETIME).
ContainersEnd == \A c \in Containers : Alive(c) ~> ~Alive(c)

=============================================================================
