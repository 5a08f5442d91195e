-------------------------- MODULE DesktopDaemonProofs --------------------------
(****************************************************************************)
(* Theorems about the desktop application and its daemon, whatever races:   *)
(* the types and withGuard's flag need no condition, the PAT that is written*)
(* survives commands that are still under way when a session begins or      *)
(* ends, and the daemon that follows the session asks that nothing raced.   *)
(****************************************************************************)
EXTENDS DesktopDaemon, TLAPS

USE DesktopAssumption

Buttons  == {"start", "stop", "restart"}
Restart  == {"restart after login", "restart after link"}
Kind     == {"commands", "credentials", "files"}
Writing  == {"sync", "readUserId", "mint", "writeConfig", "writeUserId"}
Clearing == {"clear", "deleteToken", "removeUserId", "guardedStop"}
Stopping == {"stop", "execStop", "stopped", "notStopped"}
Starting == {"start", "execStart", "started"}
For      == {"login", "link", "logout"} \cup Buttons \cup Restart
Label    == Writing \cup Clearing \cup Stopping \cup Starting \cup {"rotate", "autoStart"}
Owner    == User \cup {None}

CallRecord == [for : For, pc : Label, token : Owner, id : Owner, batch : Batch,
               pat : Owner, userChanged : BOOLEAN]

\* Where a call may be, by what it was made for.
Placed(c) ==
    /\ c.pc \in Writing \cup {"rotate"} => c.for \in {"login", "link"}
    /\ c.pc = "autoStart" => c.for = "login"
    /\ c.pc \in Clearing => c.for = "logout"
    /\ c.pc \in Stopping => c.for \in {"logout", "stop", "restart"} \cup Restart
    /\ c.pc \in Starting => c.for \in {"login", "start", "restart"} \cup Restart

Types ==
    /\ {stored, user, config, sidecar, awaiting.init, awaiting.link} \subseteq Owner
    /\ awaiting \in [init : Owner, link : Owner]
    /\ daemon \in [phase : {"down", "spawned", "loading", "running"}, token : Owner]
    /\ currentState \in {"installing_cli", "cli_not_found", "stopped", "starting", "running", "stopping"}
    /\ cli \in {"resolving", "found", "missing"}
    /\ polls \subseteq {"running", "absent"}
    /\ operationInProgress \in BOOLEAN
    /\ calls \subseteq CallRecord /\ \A c \in calls : Placed(c)
    /\ raced \subseteq Kind
    /\ sessions \in Nat /\ clicks \in Nat /\ faults \in Nat

Distinct == \A c, d \in calls : c.for = d.for /\ c.batch = d.batch => c = d

\* What a change of session may have come on top of are commands.
Calm == raced \subseteq {"commands"}

\* One session at a time has to do with the credentials: what writes them does so
\* for the token that is stored, and a logout that clears them is alone in that.
OneSession ==
    /\ awaiting.init # None => calls = {} /\ user = None /\ awaiting.link = None /\ awaiting.init = stored
    /\ awaiting.link # None => awaiting.link = stored /\ \A c \in calls : ~Touches(c)
    /\ \A c \in calls : c.pc \in Writing => c.id = stored /\ c.token = stored /\ stored # None
    /\ \A c \in calls : c.for = "logout" /\ Touches(c) =>
                            awaiting = NotAwaiting /\ \A d \in calls : Touches(d) => d = c

Orderly == Calm => OneSession

\* A sync that may still restart the daemon has not done so.
RestartsOnce ==
    \A c, d \in calls :
        c.batch = d.batch /\ c.pc \in Writing \cup {"rotate"} => d.for # Restarting(c)

\* withGuard's flag is set for the one call that holds it.
Operates(c) == c.for \in Buttons \/ (c.for = "logout" /\ c.pc \in Stopping)

GuardHeld ==
    /\ (operationInProgress <=> \E c \in calls : Operates(c))
    /\ \A c, d \in calls : Operates(c) /\ Operates(d) => c = d

CallsInv == Types /\ Distinct /\ Orderly /\ RestartsOnce /\ GuardHeld

-----------------------------------------------------------------------------
(* What a step of a call may do to the calls *)

Follows(c, d) ==
    /\ d \in CallRecord /\ Placed(d)
    /\ d.batch = c.batch /\ d.id = c.id /\ d.token = c.token
    /\ d.pc \in Writing => c.pc \in Writing
    /\ d.for = c.for \/ (c.pc = "rotate" /\ d.pc = "stop" /\ d.for = Restarting(c))
    /\ d.pc = "rotate" => c.pc \in Writing
    /\ Touches(d) => Touches(c)
    /\ Operates(d) => Operates(c) \/ ~operationInProgress

\* The call is replaced by those that go on, and the flag says whether one of
\* the calls that are left holds it.
Resumes(c, next) ==
    /\ calls' = (calls \ {c}) \cup next
    /\ \A d \in next : Follows(c, d)
    /\ \A d, e \in next : d.for = e.for => d = e
    /\ operationInProgress' \in BOOLEAN
    /\ (operationInProgress' <=> (operationInProgress /\ ~Operates(c)) \/ \E d \in next : Operates(d))

\* A step that changes neither what is stored nor whom the renderer waits for.
Aside == UNCHANGED <<stored, user, awaiting, sessions>>

LEMMA AtFollows ==
    ASSUME CallsInv, NEW c \in calls, NEW d \in CallRecord, Placed(d),
           d.for = c.for, d.batch = c.batch, d.id = c.id, d.token = c.token,
           d.pc \in Writing => c.pc \in Writing, d.pc = "rotate" => c.pc \in Writing,
           Touches(d) => Touches(c),
           Operates(d) <=> Operates(c), UNCHANGED operationInProgress, Becomes(c, d)
    PROVE  Resumes(c, {d})
BY DEF Becomes, Resumes, Follows, CallsInv, GuardHeld, Types

LEMMA DoneResumes ==
    ASSUME CallsInv, NEW c \in calls, Done(c), c.pc \in Starting \cup Stopping
    PROVE  Resumes(c, {})
BY DEF Done, Ends, Resumes, CallsInv, GuardHeld, Types, Placed, Operates, Guarded, Buttons, Restart,
       Starting, Stopping, Writing, Clearing

LEMMA EndsResumes ==
    ASSUME CallsInv, NEW c \in calls, Ends(c), UNCHANGED operationInProgress, ~Operates(c)
    PROVE  Resumes(c, {})
BY DEF Ends, Resumes, CallsInv, GuardHeld, Types

Resumed(c) == \E next : Resumes(c, next)

LEMMA SyncResumes ==
    ASSUME CallsInv, NEW c \in calls,
           syncToken(c) \/ choosePat(c) \/ mintPat(c) \/ WriteCredentials(c)
    PROVE  Resumed(c)
<1>c. c \in CallRecord /\ Placed(c) /\ config \in Owner
  BY DEF CallsInv, Types
<1>0. CASE syncToken(c)
  <2>. DEFINE d == [c EXCEPT !.pc = "readUserId", !.pat = config]
  <2>1. /\ d \in CallRecord /\ d.for = c.for /\ d.batch = c.batch /\ d.id = c.id
        /\ d.token = c.token /\ c.pc = "sync" /\ d.pc = "readUserId"
    BY <1>0, <1>c DEF syncToken, CallRecord, Label, Writing, Owner
  <2>2. Becomes(c, d) /\ UNCHANGED operationInProgress
    BY <1>0 DEF syncToken
  <2>. HIDE DEF d
  <2>3. Placed(d)
    BY <1>c, <2>1 DEF Placed, Writing, Clearing, Stopping, Starting
  <2>4. Resumes(c, {d})
    BY <1>c, <2>1, <2>2, <2>3, AtFollows DEF Writing, Operates, Touches, Stopping, Placed, Buttons
  <2>. QED
    BY <2>4 DEF Resumed
<1>1. CASE choosePat(c)
  <2>. DEFINE writes  == c.token \in PatUser \/ (sidecar = c.id /\ c.pat # None)
              pc      == IF writes THEN "writeConfig" ELSE "mint"
              pat     == IF c.token \in PatUser THEN c.token
                         ELSE IF sidecar = c.id /\ c.pat # None THEN c.pat ELSE None
              changed == sidecar \notin {None, c.id}
              d       == [c EXCEPT !.pc = pc, !.pat = pat, !.userChanged = changed]
  <2>0. c.pc = "readUserId"
    BY <1>1 DEF choosePat
  <2>f. /\ d \in CallRecord /\ d.for = c.for /\ d.batch = c.batch /\ d.id = c.id
        /\ d.token = c.token /\ d.pc \in {"writeConfig", "mint"}
    <3>1. pc \in {"writeConfig", "mint"} /\ pat \in Owner /\ changed \in BOOLEAN
      BY <1>c DEF Owner, CallRecord
    <3>2. pc \in Label
      BY <3>1 DEF Label, Writing
    <3>. HIDE DEF pc, pat, changed
    <3>. QED
      BY <1>c, <3>1, <3>2 DEF CallRecord
  <2>2. Becomes(c, d) /\ UNCHANGED operationInProgress
    BY <1>1 DEF choosePat, Becomes
  <2>. HIDE DEF d
  <2>1. Placed(d)
    BY <1>c, <2>0, <2>f DEF Placed, Writing, Clearing, Stopping, Starting
  <2>3. Resumes(c, {d})
    BY <1>c, <2>0, <2>f, <2>1, <2>2, AtFollows DEF Writing, Operates, Touches, Stopping, Placed, Buttons
  <2>. QED
    BY <2>3 DEF Resumed
<1>2. CASE mintPat(c)
  <2>. DEFINE d == [c EXCEPT !.pc = "writeConfig", !.pat = c.token]
  <2>1. /\ d \in CallRecord /\ Placed(d) /\ d.for = c.for /\ d.batch = c.batch /\ d.id = c.id
        /\ d.token = c.token /\ c.pc = "mint" /\ d.pc = "writeConfig"
    BY <1>2, <1>c DEF mintPat, CallRecord, Placed, Label, Writing, Clearing, Stopping, Starting, Owner
  <2>2. (Becomes(c, d) \/ Ends(c)) /\ UNCHANGED operationInProgress
    BY <1>2 DEF mintPat
  <2>. HIDE DEF d
  <2>3. ~Operates(c) /\ ~Operates(d)
    BY <1>c, <2>1 DEF Writing, Operates, Stopping, Placed, Buttons
  <2>4. Resumes(c, {d}) \/ Resumes(c, {})
    BY <2>1, <2>2, <2>3, AtFollows, EndsResumes DEF Writing, Touches
  <2>. QED
    BY <2>4 DEF Resumed
<1>3. CASE WriteCredentials(c)
  <2>. DEFINE d == At(c, IF c.pc = "writeConfig" THEN "writeUserId" ELSE "rotate")
  <2>1. /\ d \in CallRecord /\ Placed(d) /\ d.for = c.for /\ d.batch = c.batch /\ d.id = c.id
        /\ d.token = c.token /\ c.pc \in {"writeConfig", "writeUserId"} /\ d.pc \in {"writeUserId", "rotate"}
    BY <1>3, <1>c DEF WriteCredentials, At, CallRecord, Placed, Label, Writing, Clearing, Stopping, Starting
  <2>2. Becomes(c, d) /\ UNCHANGED operationInProgress
    BY <1>3 DEF WriteCredentials
  <2>. HIDE DEF d
  <2>3. Resumes(c, {d})
    BY <1>c, <2>1, <2>2, AtFollows DEF Writing, Operates, Touches, Stopping, Placed, Buttons
  <2>. QED
    BY <2>3 DEF Resumed
<1>. QED
  BY <1>0, <1>1, <1>2, <1>3

LEMMA RotateResumes ==
    ASSUME CallsInv, NEW c \in calls, RestartOnUserSwitch(c)
    PROVE  Resumed(c)
<1>. DEFINE d    == [At(c, "stop") EXCEPT !.for = Restarting(c)]
            next == AfterSync(c) \cup (IF c.userChanged /\ IsUp THEN {d} ELSE {})
<1>1. c \in CallRecord /\ Placed(c) /\ c.pc = "rotate" /\ c.for \in {"login", "link"}
  BY DEF CallsInv, Types, RestartOnUserSwitch, Placed
<1>2. /\ d \in CallRecord /\ Placed(d) /\ d.batch = c.batch /\ d.id = c.id /\ d.token = c.token
      /\ d.pc = "stop" /\ d.for = Restarting(c) /\ d.for \in Restart
  BY <1>1 DEF At, Restarting, CallRecord, Placed, For, Restart, Label, Stopping, Writing, Clearing, Starting
<1>3. ~Operates(c) /\ Follows(c, d) /\ ~Operates(d)
  BY <1>1, <1>2 DEF Follows, Operates, Touches, Buttons, Restart, Stopping, Writing
<1>4. \A a \in AfterSync(c) : Follows(c, a) /\ ~Operates(a) /\ a.for = "login"
  BY <1>1 DEF AfterSync, At, Follows, Operates, Touches, CallRecord, Placed, Label, Stopping, Writing,
     Clearing,
     Starting, Buttons
<1>5. \A a, b \in AfterSync(c) : a = b
  BY DEF AfterSync
<1>6. calls' = (calls \ {c}) \cup next /\ UNCHANGED operationInProgress
  BY DEF RestartOnUserSwitch
<1>. HIDE DEF d
<1>g. \A e \in next : Follows(c, e) /\ ~Operates(e) /\ (e = d \/ e \in AfterSync(c))
  BY <1>3, <1>4
<1>h. d.for # "login"
  BY <1>2 DEF Restart
<1>i. \A a, b \in next : a.for = b.for => a = b
  BY <1>4, <1>5, <1>g, <1>h
<1>. HIDE DEF next
<1>7. Resumes(c, next)
  BY <1>3, <1>6, <1>g, <1>i DEF Resumes, CallsInv, Types
<1>. QED
  BY <1>7 DEF Resumed

LEMMA AtFields ==
    ASSUME NEW c \in CallRecord, NEW pc \in Label
    PROVE  /\ At(c, pc) \in CallRecord /\ At(c, pc).pc = pc
           /\ At(c, pc).for = c.for /\ At(c, pc).batch = c.batch
           /\ At(c, pc).id = c.id /\ At(c, pc).token = c.token
           /\ At(c, pc).pat = c.pat /\ At(c, pc).userChanged = c.userChanged
BY DEF At, CallRecord

Commanding == Starting \cup Stopping \cup {"autoStart"}

LEMMA CommandGoesOn ==
    ASSUME CallsInv, NEW c \in calls, NEW pc \in Starting \cup Stopping, c.pc \in Commanding,
           Placed(At(c, pc)), Becomes(c, At(c, pc)), UNCHANGED operationInProgress
    PROVE  Resumed(c)
<1>1. c \in CallRecord /\ Placed(c) /\ pc \in Label /\ c.pc \notin Clearing /\ pc \notin Clearing
      /\ pc \notin Writing \cup {"rotate", "autoStart"}
  BY DEF CallsInv, Types, Label, Commanding, Starting, Stopping, Clearing, Writing
<1>2. At(c, pc) \in CallRecord /\ At(c, pc).pc = pc /\ At(c, pc).for = c.for
      /\ At(c, pc).batch = c.batch /\ At(c, pc).id = c.id /\ At(c, pc).token = c.token
  BY <1>1, AtFields
<1>3. Operates(At(c, pc)) <=> Operates(c)
  BY <1>1, <1>2 DEF Operates, Placed, Commanding, Starting, Stopping, Buttons, Restart
<1>t. ~Touches(At(c, pc))
  BY <1>1, <1>2 DEF Touches, Starting, Stopping
<1>4. Resumes(c, {At(c, pc)})
  BY <1>1, <1>2, <1>3, <1>t, AtFollows
<1>. QED
  BY <1>4 DEF Resumed

LEMMA ClearResumes ==
    ASSUME CallsInv, NEW c \in calls, clearToken(c)
    PROVE  Resumed(c)
<1>1. /\ c \in CallRecord /\ Placed(c) /\ c.for = "logout" /\ c.pc \in Clearing
      /\ ~Operates(c) /\ operationInProgress \in BOOLEAN
  BY DEF CallsInv, Types, clearToken, Placed, Clearing, Operates, Stopping, Buttons
<1>2. \A pc \in Clearing \cup {"stop"} : pc \in Label /\ Placed(At(c, pc)) /\ ~(pc \in Writing \cup {"rotate"})
  BY <1>1, AtFields DEF Label, Placed, Writing, Clearing, Stopping, Starting
<1>3. CASE c.pc = "guardedStop" /\ ~operationInProgress
  <2>1. Becomes(c, At(c, "stop")) /\ operationInProgress' = TRUE
    BY <1>3 DEF clearToken
  <2>2. Follows(c, At(c, "stop")) /\ Operates(At(c, "stop"))
    BY <1>1, <1>2, <1>3, AtFields DEF Follows, Operates, Touches, Stopping, Writing
  <2>3. Resumes(c, {At(c, "stop")})
    BY <1>1, <2>1, <2>2 DEF Resumes, Becomes
  <2>. QED
    BY <2>3 DEF Resumed
<1>5. CASE c.pc = "guardedStop" /\ operationInProgress
  <2>1. Ends(c) /\ operationInProgress' = operationInProgress
    BY <1>1, <1>5 DEF clearToken
  <2>2. Resumes(c, {})
    BY <1>1, <2>1, EndsResumes
  <2>. QED
    BY <2>2 DEF Resumed
<1>4. CASE c.pc # "guardedStop"
  <2>0. /\ UNCHANGED operationInProgress
        /\ \/ Becomes(c, At(c, "deleteToken"))
           \/ Becomes(c, At(c, "removeUserId"))
           \/ Becomes(c, At(c, "guardedStop"))
    <3>1. (IF config # None THEN "deleteToken" ELSE "removeUserId") \in {"deleteToken", "removeUserId"}
      OBVIOUS
    <3>. QED
      BY <1>4, <3>1 DEF clearToken
  <2>1. PICK pc \in Clearing : Becomes(c, At(c, pc)) /\ UNCHANGED operationInProgress
    BY <2>0 DEF Clearing
  <2>2. ~Operates(At(c, pc)) /\ Touches(c)
    <3>1. At(c, pc).for = "logout" /\ At(c, pc).pc \in Clearing
      BY <1>1, <1>2, AtFields
    <3>. QED
      BY <1>1, <1>4, <3>1 DEF Operates, Touches, Stopping, Clearing, Buttons
  <2>3. Resumes(c, {At(c, pc)})
    BY <1>1, <1>2, <2>1, <2>2, AtFields, AtFollows
  <2>. QED
    BY <2>3 DEF Resumed
<1>. QED
  BY <1>1, <1>3, <1>4, <1>5

LEMMA StartResumes ==
    ASSUME CallsInv, NEW c \in calls, autoStart(c) \/ startDaemon(c) \/ execStart(c) \/ Started(c)
    PROVE  Resumed(c)
<1>1. c \in CallRecord /\ Placed(c) /\ c.pc \in {"autoStart", "start", "execStart", "started"}
  BY DEF CallsInv, Types, autoStart, startDaemon, execStart, Started
<1>2. \A pc \in Starting : Placed(At(c, pc))
  BY <1>1, AtFields DEF Label, Placed, Writing, Clearing, Stopping, Starting
<1>3. c.pc = "autoStart" => ~Operates(c)
  BY <1>1 DEF Placed, Operates, Buttons, Stopping
<1>4. \/ \E pc \in Starting : Becomes(c, At(c, pc)) /\ UNCHANGED operationInProgress
      \/ c.pc = "autoStart" /\ Ends(c) /\ UNCHANGED operationInProgress
      \/ c.pc \in Starting /\ Done(c)
  BY DEF autoStart, startDaemon, execStart, Started, Starting
<1>5. Resumes(c, {}) \/ Resumed(c)
  BY <1>1, <1>2, <1>3, <1>4, CommandGoesOn, DoneResumes, EndsResumes DEF Commanding, Starting
<1>. QED
  BY <1>5 DEF Resumed

LEMMA StopResumes ==
    ASSUME CallsInv, NEW c \in calls, stopDaemon(c) \/ execStop(c) \/ Stopped(c)
    PROVE  Resumed(c)
<1>1. c \in CallRecord /\ Placed(c) /\ c.pc \in Stopping
  BY DEF CallsInv, Types, stopDaemon, execStop, Stopped, Stopping
<1>l. c.for \in {"logout", "stop", "restart"} \cup Restart
  BY <1>1 DEF Placed
<1>2. \A pc \in Stopping : Placed(At(c, pc))
  BY <1>1, <1>l, AtFields DEF Label, Placed, Writing, Clearing, Stopping, Starting
<1>s. Restarts(c) => Placed(At(c, "start"))
  BY <1>1, <1>l, AtFields DEF Label, Placed, Writing, Clearing, Stopping, Starting, Restarts
<1>3. \/ \E pc \in Stopping : Becomes(c, At(c, pc)) /\ UNCHANGED operationInProgress
      \/ Restarts(c) /\ Becomes(c, At(c, "start")) /\ UNCHANGED operationInProgress
      \/ Done(c)
  BY DEF stopDaemon, execStop, Stopped, Stopping
<1>4. Resumes(c, {}) \/ Resumed(c)
  BY <1>1, <1>2, <1>s, <1>3, CommandGoesOn, DoneResumes DEF Commanding, Starting
<1>. QED
  BY <1>4 DEF Resumed

LEMMA ContinueResumes ==
    ASSUME CallsInv, NEW c \in calls, Continue(c)
    PROVE  Resumed(c)
BY SyncResumes, RotateResumes, ClearResumes, StartResumes, StopResumes DEF Continue

-----------------------------------------------------------------------------
(* CallsInv is inductive *)

Others ==
    /\ {config, sidecar} \subseteq Owner
    /\ daemon \in [phase : {"down", "spawned", "loading", "running"}, token : Owner]
    /\ currentState \in {"installing_cli", "cli_not_found", "stopped", "starting", "running", "stopping"}
    /\ polls \subseteq {"running", "absent"}
    /\ raced \subseteq Kind
    /\ faults \in Nat

LEMMA ContinueOthers ==
    ASSUME CallsInv, NEW c \in calls, Continue(c)
    PROVE  Others' /\ faults' >= faults /\ raced \subseteq raced'
<1>1. /\ {config, sidecar} \subseteq Owner
      /\ daemon \in [phase : {"down", "spawned", "loading", "running"}, token : Owner]
      /\ currentState \in {"installing_cli", "cli_not_found", "stopped", "starting", "running", "stopping"}
      /\ polls \subseteq {"running", "absent"}
      /\ raced \subseteq Kind
      /\ faults \in Nat /\ c.pat \in Owner /\ c.id \in Owner
  BY DEF CallsInv, Types, CallRecord
<1>r. raced' \subseteq Kind /\ raced \subseteq raced'
  BY <1>1 DEF Continue, choosePat, Race, Kind
<1>2. CASE syncToken(c) \/ choosePat(c) \/ mintPat(c) \/ RestartOnUserSwitch(c) \/ autoStart(c)
  BY <1>1, <1>r, <1>2 DEF syncToken, choosePat, mintPat, RestartOnUserSwitch, autoStart, Others, disk
<1>3. CASE WriteCredentials(c)
  BY <1>1, <1>r, <1>3 DEF WriteCredentials, Others, disk
<1>4. CASE clearToken(c)
  <2>1. /\ config' \in {config, None} /\ sidecar' \in {sidecar, None}
        /\ UNCHANGED <<currentState, polls, daemon, faults>>
    BY <1>4 DEF clearToken, disk
  <2>. QED
    BY <1>1, <1>r, <2>1 DEF Others, Owner
<1>5. CASE startDaemon(c) \/ Started(c)
  <2>1. /\ currentState' \in {currentState, "starting", "stopped"} /\ polls' \in {polls, polls \cup {health}}
        /\ UNCHANGED <<config, sidecar, daemon>> /\ faults' \in {faults, faults + 1}
    BY <1>5 DEF startDaemon, Started, disk
  <2>. QED
    BY <1>1, <1>r, <2>1 DEF Others, health
<1>6. CASE execStart(c) \/ execStop(c)
  <2>1. /\ daemon' \in {daemon, [phase |-> "down", token |-> None], [phase |-> "spawned", token |-> None]}
        /\ currentState' \in {currentState, "stopped"}
        /\ UNCHANGED <<config, sidecar, polls>> /\ faults' \in {faults, faults + 1}
    BY <1>6 DEF execStart, execStop, disk
  <2>. QED
    BY <1>1, <1>r, <2>1 DEF Others, Owner
<1>7. CASE stopDaemon(c) \/ Stopped(c)
  <2>1. /\ currentState' \in {currentState, "stopping", "stopped"}
        /\ UNCHANGED <<config, sidecar, polls, daemon, faults>>
    BY <1>7 DEF stopDaemon, Stopped, disk
  <2>. QED
    BY <1>1, <1>r, <2>1 DEF Others
<1>. QED
  BY <1>2, <1>3, <1>4, <1>5, <1>6, <1>7 DEF Continue

LEMMA ContinueKeepsCalls ==
    ASSUME CallsInv, NEW c \in calls, Continue(c)
    PROVE  CallsInv'
<1>1. PICK next : Resumes(c, next)
  BY ContinueResumes DEF Resumed
<1>2. /\ UNCHANGED <<stored, user, awaiting, cli, sessions, clicks>>
      /\ Others' /\ faults' \in Nat /\ raced \subseteq raced'
  BY ContinueOthers DEF Continue, renderer, Others
<1>3. /\ \A d \in next : Follows(c, d)
      /\ \A d \in calls' : d \in calls \ {c} \/ d \in next
      /\ \A d \in calls \ {c} : d \in calls'
      /\ \A d \in next : d \in calls'
  BY <1>1 DEF Resumes
<1>t. calls \subseteq CallRecord /\ \A d \in calls : Placed(d)
  BY DEF CallsInv, Types
<1>4. Types'
  <2>1. calls' \subseteq CallRecord /\ \A d \in calls' : Placed(d)
    BY <1>3, <1>t DEF Follows
  <2>2. operationInProgress' \in BOOLEAN
    BY <1>1 DEF Resumes
  <2>. QED
    BY <1>2, <2>1, <2>2 DEF CallsInv, Types, Others
<1>5. Distinct'
  <2>. SUFFICES ASSUME NEW d \in calls', NEW e \in calls', d.for = e.for, d.batch = e.batch
                PROVE  d = e
    BY DEF Distinct
  <2>1. CASE d \in next /\ e \in next
    BY <1>1, <2>1 DEF Resumes
  <2>2. CASE d \in calls \ {c} /\ e \in calls \ {c}
    BY <2>2 DEF CallsInv, Distinct
  <2>3. ASSUME NEW x \in calls \ {c}, NEW y \in next, x.for = y.for, x.batch = y.batch
        PROVE  FALSE
    <3>1. Follows(c, y)
      BY <1>3
    <3>2. x.for # c.for
      BY <3>1, <2>3 DEF CallsInv, Distinct, Follows
    <3>3. c.pc = "rotate" /\ y.for = Restarting(c) /\ x.batch = c.batch
      BY <3>1, <3>2, <2>3 DEF Follows
    <3>. QED
      BY <3>3, <2>3 DEF CallsInv, RestartsOnce
  <2>. QED
    BY <1>3, <2>1, <2>2, <2>3
<1>6. Orderly'
  <2>. SUFFICES ASSUME Calm' PROVE OneSession'
    BY DEF Orderly
  <2>o. OneSession
    BY <1>2 DEF CallsInv, Orderly, Calm
  <2>1. awaiting.init = None
    BY <2>o DEF OneSession
  <2>2. awaiting.link # None => \A d \in calls' : ~Touches(d)
    BY <1>3, <2>o DEF OneSession, Follows
  <2>3. \A d \in calls' : d.pc \in Writing => d.id = stored /\ d.token = stored /\ stored # None
    BY <1>3, <2>o DEF OneSession, Follows
  <2>4. \A d \in calls' : d.for = "logout" /\ Touches(d) =>
                            awaiting = NotAwaiting /\ \A e \in calls' : Touches(e) => e = d
    <3>. SUFFICES ASSUME NEW d \in calls', d.for = "logout", Touches(d)
                  PROVE  awaiting = NotAwaiting /\ \A e \in calls' : Touches(e) => e = d
      OBVIOUS
    <3>1. CASE d \in calls \ {c}
      <4>1. awaiting = NotAwaiting /\ \A e \in calls : Touches(e) => e = d
        BY <3>1, <2>o DEF OneSession
      <4>2. ~Touches(c)
        BY <3>1, <4>1
      <4>. QED
        BY <1>3, <4>1, <4>2 DEF Follows
    <3>2. CASE d \in next
      <4>1. c.for = "logout" /\ Touches(c)
        BY <1>3, <3>2 DEF Follows, Restarting
      <4>2. awaiting = NotAwaiting /\ \A e \in calls : Touches(e) => e = c
        BY <4>1, <2>o DEF OneSession
      <4>3. \A e \in next : e.for = "logout"
        BY <1>3, <1>t, <4>1 DEF Follows, Placed
      <4>. QED
        BY <1>1, <1>3, <3>2, <4>2, <4>3 DEF Resumes
    <3>. QED
      BY <1>3, <3>1, <3>2
  <2>. QED
    BY <1>2, <2>1, <2>2, <2>3, <2>4, <2>o DEF OneSession
<1>7. RestartsOnce'
  <2>. SUFFICES ASSUME NEW d \in calls', NEW e \in calls', d.batch = e.batch,
                       d.pc \in Writing \cup {"rotate"}, e.for = Restarting(d)
                PROVE  FALSE
    BY DEF RestartsOnce
  <2>p. Placed(d) /\ d.for \in {"login", "link"}
    BY <1>4 DEF Types, Placed
  <2>1. PICK x \in calls : /\ x.batch = d.batch /\ x.for = d.for /\ x.pc \in Writing \cup {"rotate"}
                           /\ \/ x = d
                              \/ x.pc \in Writing /\ x = c /\ d \in next
    <3>1. CASE d \in calls
      BY <3>1
    <3>2. CASE d \in next
      <4>1. Follows(c, d) /\ d.for = c.for
        BY <1>3, <3>2, <2>p DEF Follows, Restarting
      <4>2. c.pc \in Writing
        BY <4>1 DEF Follows
      <4>. QED
        BY <4>1, <4>2, <3>2 DEF Follows
    <3>. QED
      BY <1>3, <3>1, <3>2
  <2>2. Restarting(x) = Restarting(d)
    BY <2>1 DEF Restarting
  <2>3. CASE e \in calls \ {c}
    BY <2>1, <2>2, <2>3 DEF CallsInv, RestartsOnce
  <2>4. CASE e \in next
    <3>1. Follows(c, e)
      BY <1>3, <2>4
    <3>2. c.pc = "rotate" /\ e.for = Restarting(c)
      BY <3>1, <2>1, <2>2 DEF CallsInv, RestartsOnce, Follows
    <3>3. c.for = x.for
      BY <3>2, <2>2, <1>t, <2>p, <2>1 DEF Restarting, Placed
    <3>4. x = c
      BY <3>1, <3>3, <2>1 DEF CallsInv, Distinct, Follows
    <3>5. x = d /\ d \in next
      BY <3>4, <3>2, <2>1, <1>3 DEF Writing
    <3>. QED
      BY <3>5, <3>4, <3>2, <1>3 DEF Follows, Writing
  <2>. QED
    BY <1>3, <2>3, <2>4
<1>8. GuardHeld'
  <2>1. operationInProgress' <=> \E d \in calls' : Operates(d)
    BY <1>1, <1>3 DEF Resumes, CallsInv, GuardHeld
  <2>2. ASSUME NEW d \in next, NEW e \in calls \ {c}, Operates(d), Operates(e)
        PROVE  FALSE
    BY <1>3, <2>2 DEF Follows, CallsInv, GuardHeld
  <2>3. ASSUME NEW d \in next, NEW e \in next, Operates(d), Operates(e)
        PROVE  d = e
    <3>1. d.for = c.for /\ e.for = c.for
      BY <1>3, <2>3 DEF Follows, Operates, Restarting, Buttons
    <3>. QED
      BY <1>1, <3>1 DEF Resumes
  <2>4. \A d, e \in calls' : Operates(d) /\ Operates(e) => d = e
    BY <1>3, <2>2, <2>3 DEF CallsInv, GuardHeld
  <2>. QED
    BY <2>1, <2>4 DEF GuardHeld, Operates
<1>. QED
  BY <1>4, <1>5, <1>6, <1>7, <1>8 DEF CallsInv

LEMMA FreshBatch ==
    ASSUME Free # {}
    PROVE  Fresh \in Batch /\ \A c \in calls : c.batch # Fresh
<1>1. Fresh \in Free
  BY DEF Fresh
<1>. QED
  BY <1>1 DEF Free

LEMMA FirstBatch == First \in Batch
BY DEF First

LEMMA NewCalls ==
    ASSUME NEW token \in Owner, NEW id \in Owner, NEW batch \in Batch
    PROVE  /\ \A for \in {"login", "link"} :
                 LET c == Call(for, "sync", token, id, batch)
                 IN  /\ c \in CallRecord /\ c.for = for /\ c.pc = "sync"
                     /\ c.token = token /\ c.id = id /\ c.batch = batch
           /\ LET c == Call("logout", "clear", None, None, batch)
              IN  c \in CallRecord /\ c.for = "logout" /\ c.pc = "clear" /\ c.batch = batch
           /\ \A button \in Buttons, pc \in {"start", "stop"} :
                 LET c == Call(button, pc, None, None, batch)
                 IN  c \in CallRecord /\ c.for = button /\ c.pc = pc /\ c.batch = batch
BY DEF Call, CallRecord, For, Label, Buttons, Writing, Clearing, Starting, Stopping, Owner

\* A call that the renderer has just made, in a batch of its own.
Begun(c) ==
    /\ c \in CallRecord /\ c.batch = Fresh
    /\ \/ c.for \in {"login", "link"} /\ c.pc = "sync"
       \/ c.for = "logout" /\ c.pc = "clear"

LEMMA CallsJoin ==
    ASSUME CallsInv, Free # {}, NEW new, \A c \in new : Begun(c),
           \A c, d \in new : c.for = d.for => c = d,
           calls' = calls \cup new, UNCHANGED operationInProgress
    PROVE  /\ calls' \subseteq CallRecord /\ \A c \in calls' : Placed(c)
           /\ Distinct' /\ RestartsOnce' /\ GuardHeld'
<1>1. \A c \in new : /\ Placed(c) /\ ~Operates(c) /\ c.for \in {"login", "link", "logout"}
                     /\ c.pc \notin {"rotate"} /\ c \in CallRecord /\ \A d \in calls : d.batch # c.batch
  BY FreshBatch DEF Begun, Placed, Operates, Writing, Clearing, Starting, Stopping, Buttons
<1>2. calls' \subseteq CallRecord /\ \A c \in calls' : Placed(c)
  BY <1>1 DEF CallsInv, Types
<1>3. Distinct'
  BY <1>1 DEF CallsInv, Distinct
<1>4. RestartsOnce'
  <2>. SUFFICES ASSUME NEW c \in calls', NEW d \in calls', c.batch = d.batch, c.pc \in Writing \cup {"rotate"}
                PROVE  d.for # Restarting(c)
    BY DEF RestartsOnce, Restarting
  <2>1. CASE d \in new
    BY <2>1, <1>1 DEF Restarting
  <2>2. CASE d \in calls /\ c \in calls
    BY <2>2 DEF CallsInv, RestartsOnce
  <2>. QED
    BY <2>1, <2>2, <1>1
<1>5. GuardHeld'
  <2>1. \A c \in calls' : Operates(c) => c \in calls
    BY <1>1
  <2>. QED
    BY <2>1 DEF CallsInv, GuardHeld, Operates
<1>. QED
  BY <1>2, <1>3, <1>4, <1>5

\* A session turns: nothing touches the credentials but what has just begun.
LEMMA SessionTurns ==
    ASSUME \A c \in calls : ~Touches(c), NEW new, \A c \in new : Begun(c),
           calls' = calls \cup new, awaiting' = NotAwaiting,
           \A c \in new : c.pc = "sync" => c.id = stored' /\ c.token = stored' /\ stored' # None,
           \A c, d \in new : c.for = "logout" => d = c
    PROVE  OneSession'
<1>1. \A c \in calls' : Touches(c) => c \in new
  BY DEF Touches
<1>2. \A c \in calls' : c.pc \in Writing => c \in new /\ c.pc = "sync"
  BY <1>1 DEF Writing, Touches, Begun
<1>. QED
  BY <1>1, <1>2 DEF OneSession, NotAwaiting, Touches

\* What is known of a session that begins or ends without a race.
LEMMA Waits ==
    ASSUME CallsInv, Race(Unfinished), Calm'
    PROVE  awaiting = NotAwaiting /\ \A c \in calls : ~Touches(c)
BY DEF Race, Unfinished, Calm

LEMMA CalmBefore ==
    ASSUME CallsInv, [Next]_vars, Calm'
    PROVE  OneSession
<1>1. raced \subseteq raced'
  <2>1. CASE \E c \in calls : Continue(c)
    BY <2>1, ContinueOthers
  <2>2. CASE logout \/ \E u \in User : Login(u) \/ loginWithToken(u)
    BY <2>2 DEF logout, Login, loginWithToken, Race
  <2>. QED
    BY <2>1, <2>2 DEF Next, vars, LinkAnswered, AuthInitialized, AuthRefused, Click, bootstrapCli,
       retryInstall, pollOnce, PollReturns, DaemonLoads, DaemonServes, DaemonDies, Relaunch
<1>. QED
  BY <1>1 DEF CallsInv, Orderly, Calm

\* The types of what is not of the calls.
Application ==
    /\ {stored, user, awaiting.init, awaiting.link} \subseteq Owner
    /\ awaiting \in [init : Owner, link : Owner]
    /\ cli \in {"resolving", "found", "missing"}
    /\ sessions \in Nat /\ clicks \in Nat

LEMMA TypesOfAll ==
    Types <=> /\ Others /\ Application /\ operationInProgress \in BOOLEAN
              /\ calls \subseteq CallRecord /\ \A c \in calls : Placed(c)
BY DEF Types, Others, Application

LEMMA SessionTypes ==
    ASSUME CallsInv,
           \/ \E u \in User : Login(u) \/ loginWithToken(u)
           \/ logout \/ LinkAnswered \/ AuthInitialized
           \/ \E asker \in {"init", "link"} : AuthRefused(asker)
           \/ Relaunch
    PROVE  Others' /\ Application'
<1>t. Others /\ Application
  BY TypesOfAll DEF CallsInv
<1>1. /\ {stored', user'} \subseteq Owner
  BY <1>t DEF Login, loginWithToken, logout, LinkAnswered, AuthInitialized, AuthRefused, Relaunch,
     Application, Owner
<1>2. awaiting' \in [init : Owner, link : Owner]
  BY <1>t DEF Login, loginWithToken, logout, LinkAnswered, AuthInitialized, AuthRefused, Relaunch,
     Application, Owner, NotAwaiting
<1>3. /\ cli' \in {"resolving", "found", "missing"}
      /\ sessions' \in {sessions, sessions + 1} /\ faults' \in {faults, faults + 1}
      /\ UNCHANGED <<config, sidecar, daemon, clicks>>
      /\ currentState' \in {currentState, "installing_cli"} /\ polls' \in {polls, {}}
  BY <1>t DEF Login, loginWithToken, logout, LinkAnswered, AuthInitialized, AuthRefused, Relaunch,
     Application, disk, bounds
<1>4. raced' \subseteq Kind
  BY <1>t DEF Login, loginWithToken, logout, LinkAnswered, AuthInitialized, AuthRefused, Relaunch,
     Others, Race, Unfinished, Kind
<1>5. Application'
  BY <1>t, <1>1, <1>2, <1>3 DEF Application
<1>6. Others'
  BY <1>t, <1>3, <1>4 DEF Others
<1>. QED
  BY <1>5, <1>6

LEMMA SessionsKeepCalls ==
    ASSUME CallsInv, [Next]_vars,
           \/ \E u \in User : Login(u)
           \/ logout \/ LinkAnswered \/ AuthInitialized \/ AuthRefused("init")
    PROVE  CallsInv'
<1>t. Types /\ Others' /\ Application' /\ operationInProgress \in BOOLEAN
  BY SessionTypes DEF CallsInv, Types
<1>. USE DEF Owner
\* What each of them begins.
<1>j. ASSUME NEW new, Free # {}, \A c \in new : Begun(c), \A c, d \in new : c.for = d.for => c = d,
             calls' = calls \cup new, UNCHANGED operationInProgress, Calm' => OneSession'
      PROVE  CallsInv'
  <2>1. calls' \subseteq CallRecord /\ (\A c \in calls' : Placed(c)) /\ Distinct' /\ RestartsOnce' /\ GuardHeld'
    BY <1>j, CallsJoin
  <2>2. Types'
    <3>1. operationInProgress' \in BOOLEAN
      BY <1>t, <1>j
    <3>. QED
      BY <1>t, <2>1, <3>1, TypesOfAll DEF Types, Others, Application
  <2>. QED
    BY <2>1, <2>2, <1>j DEF CallsInv, Orderly
<1>1. ASSUME NEW u \in User, Login(u) PROVE CallsInv'
  <2>. DEFINE l == Call("login", "sync", u, u, Fresh)
  <2>1. /\ Free # {} /\ calls' = calls \cup {l} /\ stored' = u /\ awaiting' = awaiting
        /\ UNCHANGED operationInProgress /\ Race(Unfinished)
    BY <1>1 DEF Login, loginCalls
  <2>2. l \in CallRecord /\ l.for = "login" /\ l.pc = "sync" /\ l.token = u /\ l.id = u /\ l.batch = Fresh
    BY <2>1, FreshBatch, NewCalls
  <2>. HIDE DEF l
  <2>. DEFINE new == {l}
  <2>3. calls' = calls \cup new /\ \A c \in new : Begun(c) /\ c = l
    BY <2>1, <2>2 DEF Begun
  <2>. HIDE DEF new
  <2>4. Calm' => OneSession'
    <3>. SUFFICES ASSUME Calm' PROVE OneSession'
      OBVIOUS
    <3>1. awaiting' = NotAwaiting /\ \A c \in calls : ~Touches(c)
      BY <2>1, Waits
    <3>. QED
      BY <2>1, <2>2, <2>3, <3>1, SessionTurns
  <2>. QED
    BY <2>1, <2>3, <2>4, <1>j
<1>2. CASE logout
  <2>. DEFINE l == Call("logout", "clear", None, None, Fresh)
  <2>1. /\ Free # {} /\ calls' = calls \cup {l} /\ awaiting' = awaiting
        /\ UNCHANGED operationInProgress /\ Race(Unfinished)
    BY <1>2 DEF logout, handleDaemonLogout
  <2>2. l \in CallRecord /\ l.for = "logout" /\ l.pc = "clear" /\ l.batch = Fresh
    BY <2>1, FreshBatch, NewCalls
  <2>. HIDE DEF l
  <2>. DEFINE new == {l}
  <2>3. calls' = calls \cup new /\ \A c \in new : Begun(c) /\ c = l
    BY <2>1, <2>2 DEF Begun
  <2>. HIDE DEF new
  <2>4. Calm' => OneSession'
    <3>. SUFFICES ASSUME Calm' PROVE OneSession'
      OBVIOUS
    <3>1. awaiting' = NotAwaiting /\ \A c \in calls : ~Touches(c)
      BY <2>1, Waits
    <3>. QED
      BY <2>1, <2>2, <2>3, <3>1, SessionTurns
  <2>. QED
    BY <2>1, <2>3, <2>4, <1>j
<1>3. CASE LinkAnswered
  <2>. DEFINE u == awaiting.link
              l == Call("login", "sync", stored, u, Fresh)
              k == Call("link", "sync", u, u, Fresh)
              new == IF stored = None THEN {k} ELSE {l, k}
  <2>1. /\ Free # {} /\ calls' = calls \cup new /\ u # None /\ UNCHANGED <<stored, operationInProgress>>
        /\ awaiting' = [awaiting EXCEPT !.link = None]
    BY <1>3 DEF LinkAnswered, loginCalls, onAuthTokenCalls
  <2>2. /\ l \in CallRecord /\ l.for = "login" /\ l.pc = "sync" /\ l.token = stored
        /\ l.id = u /\ l.batch = Fresh
        /\ k \in CallRecord /\ k.for = "link" /\ k.pc = "sync" /\ k.token = u /\ k.id = u /\ k.batch = Fresh
    <3>1. stored \in Owner /\ u \in Owner
      BY <1>t DEF Types
    <3>. QED
      BY <2>1, <3>1, FreshBatch, NewCalls
  <2>. HIDE DEF l, k
  <2>3. /\ \A c \in new : Begun(c) /\ (c = l \/ c = k)
        /\ \A c, d \in new : c.for = d.for => c = d
    BY <2>2 DEF Begun
  <2>4. ASSUME Calm' PROVE OneSession'
    <3>1. OneSession
      BY <2>4, CalmBefore
    <3>2. u = stored /\ (\A c \in calls : ~Touches(c)) /\ awaiting.init = None
      BY <2>1, <3>1 DEF OneSession
    <3>3. awaiting' = NotAwaiting
      BY <1>t, <2>1, <3>2 DEF Types, NotAwaiting
    <3>4. \A c \in new : c.pc = "sync" => c.id = stored' /\ c.token = stored' /\ stored' # None
      BY <2>1, <2>2, <2>3, <3>2
    <3>. HIDE DEF new
    <3>5. \A c, d \in new : c.for = "logout" => d = c
      BY <2>2, <2>3
    <3>. QED
      BY <2>1, <2>3, <3>2, <3>3, <3>4, <3>5, SessionTurns
  <2>. HIDE DEF new
  <2>. QED
    BY <2>1, <2>3, <2>4, <1>j
<1>4. CASE AuthInitialized
  <2>. DEFINE u == awaiting.init
              l == Call("login", "sync", stored, u, Fresh)
              new == IF stored = None THEN {} ELSE {l}
  <2>1. /\ Free # {} /\ calls' = calls \cup new /\ u # None /\ UNCHANGED <<stored, operationInProgress>>
        /\ awaiting' = [awaiting EXCEPT !.init = None]
    BY <1>4 DEF AuthInitialized, loginCalls
  <2>2. /\ l \in CallRecord /\ l.for = "login" /\ l.pc = "sync" /\ l.token = stored
        /\ l.id = u /\ l.batch = Fresh
    <3>1. stored \in Owner /\ u \in Owner
      BY <1>t DEF Types
    <3>. QED
      BY <2>1, <3>1, FreshBatch, NewCalls
  <2>. HIDE DEF l
  <2>3. \A c \in new : Begun(c) /\ c = l
    BY <2>2 DEF Begun
  <2>4. ASSUME Calm' PROVE OneSession'
    <3>1. OneSession
      BY <2>4, CalmBefore
    <3>2. u = stored /\ calls = {} /\ awaiting.link = None
      BY <2>1, <3>1 DEF OneSession
    <3>3. awaiting' = NotAwaiting
      BY <1>t, <2>1, <3>2 DEF Types, NotAwaiting
    <3>4. \A c \in new : c.pc = "sync" => c.id = stored' /\ c.token = stored' /\ stored' # None
      BY <2>1, <2>2, <2>3, <3>2
    <3>. HIDE DEF new
    <3>. QED
      BY <2>1, <2>2, <2>3, <3>2, <3>3, <3>4, SessionTurns
  <2>. HIDE DEF new
  <2>. QED
    BY <2>1, <2>3, <2>4, <1>j
<1>5. CASE AuthRefused("init")
  <2>. DEFINE l == Call("logout", "clear", None, None, Fresh)
  <2>1. /\ Free # {} /\ calls' = calls \cup {l} /\ awaiting' = [awaiting EXCEPT !.init = None]
        /\ awaiting.init # None /\ UNCHANGED operationInProgress
    BY <1>5 DEF AuthRefused, handleDaemonLogout
  <2>2. l \in CallRecord /\ l.for = "logout" /\ l.pc = "clear" /\ l.batch = Fresh
    BY <2>1, FreshBatch, NewCalls
  <2>. HIDE DEF l
  <2>. DEFINE new == {l}
  <2>3. calls' = calls \cup new /\ \A c \in new : Begun(c) /\ c = l
    BY <2>1, <2>2 DEF Begun
  <2>. HIDE DEF new
  <2>4. ASSUME Calm' PROVE OneSession'
    <3>1. OneSession
      BY <2>4, CalmBefore
    <3>2. calls = {} /\ awaiting.link = None
      BY <2>1, <3>1 DEF OneSession
    <3>3. awaiting' = NotAwaiting
      BY <1>t, <2>1, <3>2 DEF Types, NotAwaiting
    <3>. QED
      BY <2>1, <2>2, <2>3, <3>2, <3>3, SessionTurns
  <2>. QED
    BY <2>1, <2>3, <2>4, <1>j
<1>. QED
  BY <1>1, <1>2, <1>3, <1>4, <1>5

\* The calls stay as they are, or there is at most the one that clears.
LEMMA TokensKeepCalls ==
    ASSUME CallsInv, [Next]_vars,
           (\E u \in User : loginWithToken(u)) \/ AuthRefused("link") \/ Relaunch
    PROVE  CallsInv'
<1>t. Types /\ Others' /\ Application' /\ operationInProgress \in BOOLEAN
  BY SessionTypes DEF CallsInv, Types
<1>. USE DEF Owner
<1>1. CASE (\E u \in User : loginWithToken(u)) \/ AuthRefused("link")
  <2>1. UNCHANGED <<calls, operationInProgress>>
    BY <1>1 DEF loginWithToken, AuthRefused
  <2>2. Types'
    BY <1>t, <2>1 DEF Types, Others, Application
  <2>3. Distinct' /\ RestartsOnce' /\ GuardHeld'
    BY <2>1 DEF CallsInv, Distinct, RestartsOnce, GuardHeld, Restarting, Operates
  <2>4. ASSUME Calm' PROVE OneSession'
    <3>. USE <1>t DEF Types
    <3>1. /\ \A c \in calls : ~Touches(c)
          /\ awaiting'.init = None
          /\ awaiting'.link # None => awaiting'.link = stored'
      <4>1. CASE \E u \in User : loginWithToken(u)
        BY <4>1, <2>4, Waits DEF loginWithToken, NotAwaiting
      <4>2. CASE AuthRefused("link")
        <5>1. OneSession
          BY <2>4, CalmBefore
        <5>. QED
          BY <4>2, <5>1 DEF OneSession, AuthRefused
      <4>. QED
        BY <1>1, <4>1, <4>2
    <3>2. \A c \in calls' : ~Touches(c) /\ c.pc \notin Writing
      BY <2>1, <3>1 DEF Touches, Writing
    <3>. QED
      BY <3>1, <3>2 DEF OneSession, Touches
  <2>. QED
    BY <2>2, <2>3, <2>4 DEF CallsInv, Orderly
<1>2. CASE Relaunch
  <2>. DEFINE l == Call("logout", "clear", None, None, First)
  <2>1. /\ calls' \subseteq {l} /\ (stored # None => calls' = {}) /\ operationInProgress' = FALSE
        /\ user' = None /\ awaiting' = [init |-> stored, link |-> None] /\ stored' = stored
    BY <1>2 DEF Relaunch, handleDaemonLogout, NotAwaiting
  <2>2. l \in CallRecord /\ l.for = "logout" /\ l.pc = "clear"
    BY FirstBatch, NewCalls
  <2>. HIDE DEF l
  <2>3. Placed(l) /\ ~Operates(l) /\ l.pc \notin Writing \cup {"rotate"}
    BY <2>2 DEF Placed, Operates, Writing, Clearing, Starting, Stopping, Buttons
  <2>4. Types'
    <3>1. calls' \subseteq CallRecord /\ \A c \in calls' : Placed(c)
      BY <2>1, <2>2, <2>3
    <3>2. operationInProgress' \in BOOLEAN
      BY <2>1
    <3>3. ({config', sidecar'} \subseteq Owner
           /\ {stored', user', awaiting'.init, awaiting'.link} \subseteq Owner)
            => {stored', user', config', sidecar', awaiting'.init, awaiting'.link} \subseteq Owner
      OBVIOUS
    <3>. QED
      BY <1>t, <3>1, <3>2, <3>3 DEF Types, Others, Application
  <2>5. Distinct' /\ RestartsOnce' /\ GuardHeld'
    <3>1. \A c \in calls' : c = l /\ ~Operates(c) /\ c.pc \notin Writing \cup {"rotate"}
      BY <2>1, <2>3
    <3>. QED
      BY <2>1, <3>1 DEF Distinct, RestartsOnce, GuardHeld, Restarting, Operates
  <2>6. OneSession'
    BY <2>1, <2>2, <2>3 DEF OneSession, NotAwaiting, Touches
  <2>. QED
    BY <2>4, <2>5, <2>6 DEF CallsInv, Orderly
<1>. QED
  BY <1>1, <1>2

LEMMA CallsInit == Init => CallsInv
<1>. SUFFICES ASSUME Init PROVE CallsInv
  OBVIOUS
<1>. DEFINE c == Call("logout", "clear", None, None, First)
<1>1. calls = {c} /\ c.for = "logout" /\ c.pc = "clear" /\ c \in CallRecord
  BY FirstBatch, NewCalls DEF Init, handleDaemonLogout, Owner
<1>. HIDE DEF c
<1>2. Types
  BY <1>1 DEF Init, Types, NotAwaiting, Placed, Owner, Writing, Clearing, Starting, Stopping
<1>3. ~Operates(c) /\ c.for # Restarting(c)
  BY <1>1 DEF Operates, Restarting, Buttons, Stopping
<1>4. Distinct /\ RestartsOnce /\ GuardHeld
  BY <1>1, <1>3 DEF Distinct, RestartsOnce, GuardHeld, Init
<1>5. Orderly
  BY <1>1 DEF Init, Orderly, OneSession, NotAwaiting, Writing
<1>. QED
  BY <1>2, <1>4, <1>5 DEF CallsInv

LEMMA ClickKeepsCalls ==
    ASSUME CallsInv, NEW button \in Buttons, Click(button)
    PROVE  CallsInv'
<1>. DEFINE pc == IF button = "start" THEN "start" ELSE "stop"
            n  == Call(button, pc, None, None, Fresh)
<1>t. Types
  BY DEF CallsInv
<1>1. /\ calls' = calls \cup {n} /\ operationInProgress' = TRUE /\ ~operationInProgress
      /\ user # None /\ clicks' = clicks + 1 /\ Free # {}
      /\ UNCHANGED <<stored, user, awaiting, currentState, cli, polls, config, sidecar, daemon, raced,
                     sessions, faults>>
  BY DEF Click, renderer, disk
<1>2. /\ n \in CallRecord /\ n.for = button /\ n.pc \in {"start", "stop"} /\ n.batch = Fresh
      /\ (n.pc = "start" => button = "start") /\ (n.pc = "stop" => button \in {"stop", "restart"})
  <2>1. pc \in {"start", "stop"} /\ Fresh \in Batch /\ None \in Owner
    BY <1>1, FreshBatch DEF Owner
  <2>2. \A p \in {"start", "stop"} : LET c == Call(button, p, None, None, Fresh)
                                     IN  c \in CallRecord /\ c.for = button /\ c.pc = p /\ c.batch = Fresh
    BY <2>1, NewCalls
  <2>3. n \in CallRecord /\ n.for = button /\ n.pc = pc /\ n.batch = Fresh
    BY <2>1, <2>2
  <2>. HIDE DEF n
  <2>. QED
    BY <2>3 DEF Buttons
<1>. HIDE DEF n, pc
<1>3. Placed(n) /\ Operates(n) /\ ~Touches(n)
  BY <1>2 DEF Placed, Operates, Touches, Writing, Clearing, Starting, Stopping, Buttons
<1>4. \A c \in calls : ~Operates(c) /\ c.batch # n.batch
  BY <1>1, <1>2, FreshBatch DEF CallsInv, GuardHeld
<1>5. Types'
  BY <1>t, <1>1, <1>2, <1>3 DEF Types
<1>6. Distinct'
  BY <1>1, <1>2, <1>4 DEF CallsInv, Distinct
<1>7. Orderly'
  <2>1. n.pc \notin Writing
    BY <1>2 DEF Writing
  <2>. SUFFICES ASSUME Calm' PROVE OneSession'
    BY DEF Orderly
  <2>2. OneSession
    BY <1>1 DEF CallsInv, Orderly, Calm
  <2>. QED
    BY <1>1, <1>3, <2>1, <2>2 DEF OneSession, NotAwaiting, Touches
<1>8. RestartsOnce'
  <2>1. n.pc \notin Writing \cup {"rotate"}
    BY <1>2 DEF Writing
  <2>. SUFFICES ASSUME NEW c \in calls', NEW d \in calls', c.batch = d.batch,
                       c.pc \in Writing \cup {"rotate"}
                PROVE  d.for # Restarting(c)
    BY DEF RestartsOnce, Restarting
  <2>2. c \in calls /\ d \in calls
    BY <1>1, <1>4, <2>1
  <2>. QED
    BY <2>2 DEF CallsInv, RestartsOnce
<1>9. GuardHeld'
  BY <1>1, <1>3, <1>4 DEF GuardHeld, Operates
<1>. QED
  BY <1>5, <1>6, <1>7, <1>8, <1>9 DEF CallsInv

\* The steps of the machine, the interval and the bootstrap.
Machine ==
    bootstrapCli \/ retryInstall \/ pollOnce \/ PollReturns \/ DaemonLoads \/ DaemonServes \/ DaemonDies

LEMMA MachineKeepsCalls ==
    ASSUME CallsInv, Machine
    PROVE  CallsInv'
<1>t. Types
  BY DEF CallsInv
<1>1. /\ UNCHANGED <<stored, user, awaiting, operationInProgress, calls, config, sidecar, raced, sessions,
                     clicks>>
      /\ cli' \in {cli, "found", "missing", "resolving"} /\ faults' \in {faults, faults + 1}
  BY DEF Machine, bootstrapCli, retryInstall, pollOnce, PollReturns, DaemonLoads, DaemonServes, DaemonDies,
     renderer, disk, bounds
<1>2. /\ currentState' \in {currentState, "stopped", "cli_not_found", "running", "starting"}
      /\ polls' \subseteq polls \cup {health}
  <2>1. CASE PollReturns
    BY <1>t, <2>1 DEF PollReturns, fetchHealth, Types
  <2>. QED
    BY <2>1 DEF Machine, bootstrapCli, retryInstall, pollOnce, DaemonLoads, DaemonServes, DaemonDies
<1>3. daemon' \in [phase : {"down", "spawned", "loading", "running"}, token : Owner]
  <2>1. CASE DaemonServes
    BY <1>t, <2>1 DEF DaemonServes, Types
  <2>2. CASE DaemonLoads \/ DaemonDies
    BY <1>t, <2>2 DEF DaemonLoads, DaemonDies, Types, Owner
  <2>3. CASE bootstrapCli \/ retryInstall \/ pollOnce \/ PollReturns
    BY <1>t, <2>3 DEF bootstrapCli, retryInstall, pollOnce, PollReturns, Types
  <2>. QED
    BY <2>1, <2>2, <2>3 DEF Machine
<1>4. Types'
  BY <1>t, <1>1, <1>2, <1>3 DEF Types, health
<1>. QED
  BY <1>1, <1>4 DEF CallsInv, Distinct, Orderly, Calm, OneSession, RestartsOnce, GuardHeld, Restarting,
     Operates,
     NotAwaiting, Touches

LEMMA CallsNext ==
    ASSUME CallsInv, [Next]_vars
    PROVE  CallsInv'
<1>1. CASE \/ \E u \in User : Login(u)
           \/ logout \/ LinkAnswered \/ AuthInitialized \/ AuthRefused("init")
  BY <1>1, SessionsKeepCalls
<1>2. CASE (\E u \in User : loginWithToken(u)) \/ AuthRefused("link") \/ Relaunch
  BY <1>2, TokensKeepCalls
<1>3. CASE \E button \in Buttons : Click(button)
  BY <1>3, ClickKeepsCalls
<1>4. CASE \E c \in calls : Continue(c)
  BY <1>4, ContinueKeepsCalls
<1>5. CASE Machine
  BY <1>5, MachineKeepsCalls
<1>6. CASE UNCHANGED vars
  <2>1. /\ UNCHANGED <<stored, user, awaiting, currentState, cli, operationInProgress, calls, polls>>
        /\ UNCHANGED <<config, sidecar, daemon, raced, sessions, clicks, faults>>
    BY <1>6 DEF vars
  <2>2. Types'
    BY <2>1 DEF CallsInv, Types
  <2>3. Distinct' /\ Orderly' /\ RestartsOnce' /\ GuardHeld'
    BY <2>1 DEF CallsInv, Distinct, Orderly, Calm, OneSession, RestartsOnce, GuardHeld, Restarting, Operates,
       NotAwaiting, Touches
  <2>. QED
    BY <2>2, <2>3 DEF CallsInv
<1>. QED
  BY <1>1, <1>2, <1>3, <1>4, <1>5, <1>6 DEF Next, Machine, Buttons

LEMMA CallsAlways == Spec => []CallsInv
<1>1. Init => CallsInv
  BY CallsInit
<1>2. CallsInv /\ [Next]_vars => CallsInv'
  BY CallsNext
<1>. QED
  BY <1>1, <1>2, PTL DEF Spec

\* Type correctness of the application, the files and the daemon's process,
\* whatever races: the flag of withGuard is never left set without a call that
\* clears it, and no call is made twice for one thing.
THEOREM TypeCorrect == Spec => []TypeOK
<1>1. CallsInv => TypeOK
  <2>. SUFFICES ASSUME CallsInv PROVE TypeOK
    OBVIOUS
  <2>1. \A c \in calls : Operates(c) => Guarded(c)
    BY DEF Operates, Guarded, Buttons
  <2>2. \A c, d \in calls : <<c.for, c.batch>> = <<d.for, d.batch>> => c = d
    BY DEF CallsInv, Distinct
  <2>. QED
    BY <2>1, <2>2 DEF CallsInv, Types, GuardHeld, TypeOK, Owner, Kind
<1>. QED
  BY <1>1, CallsAlways, PTL

-----------------------------------------------------------------------------
(* The credentials on disk *)

\* The stored token is being asked about, or synced on login.
Renewing ==
    \/ awaiting.init = stored
    \/ \E c \in calls : c.for = "login" /\ c.pc \in Writing

\* The PAT and the sidecar name one user, or somebody is about to write the
\* sidecar, or the write was cut short by the one failure and the same user is
\* logging in again.
DiskMatches ==
    \/ config = None \/ sidecar = None
    \/ config = sidecar
    \/ \E c \in calls : c.pc = "writeUserId"
    \/ faults = 1 /\ stored = config /\ Renewing

CredentialsMatch ==
    faults <= 1 /\ Calm =>
        /\ \A c \in calls : c.pc = "writeConfig" => c.pat = c.id
        /\ \A c \in calls : c.pc = "writeUserId" => config = c.id
        /\ DiskMatches

\* The part of a call's step that concerns the credentials.
LEMMA CallsCredentials ==
    ASSUME CallsInv, CredentialsMatch, NEW c \in calls, Continue(c)
    PROVE  CredentialsMatch'
<1>. SUFFICES ASSUME faults' <= 1, Calm' PROVE CredentialsMatch'
  BY DEF CredentialsMatch
<1>t. /\ c \in CallRecord /\ Placed(c) /\ faults \in Nat /\ faults' \in Nat /\ faults' >= faults
      /\ calls \subseteq CallRecord /\ Calm
  BY ContinueOthers DEF CallsInv, Types, Others, Calm
<1>m. /\ faults <= 1
      /\ \A d \in calls : d.pc = "writeConfig" => d.pat = d.id
      /\ \A d \in calls : d.pc = "writeUserId" => config = d.id
      /\ DiskMatches
  BY <1>t DEF CredentialsMatch
<1>o. \A d \in calls : d.pc \in Writing => d.id = stored /\ d.token = stored /\ stored # None
  BY <1>t DEF CallsInv, Orderly, OneSession
<1>u. UNCHANGED <<stored, awaiting>>
  BY DEF Continue, renderer
<1>0. CASE syncToken(c)
  <2>. DEFINE d == [c EXCEPT !.pc = "readUserId", !.pat = config]
  <2>1. /\ calls' = (calls \ {c}) \cup {d} /\ UNCHANGED <<config, sidecar, faults>> /\ c.pc = "sync"
    BY <1>0 DEF syncToken, Becomes, disk
  <2>2. d.for = c.for /\ d.pc = "readUserId"
    BY <1>t DEF CallRecord
  <2>. HIDE DEF d
  <2>3. DiskMatches'
    BY <2>1, <2>2, <1>m, <1>u DEF DiskMatches, Renewing, Writing
  <2>. QED
    BY <2>1, <2>2, <2>3, <1>m DEF CredentialsMatch
<1>1. CASE choosePat(c)
  <2>. DEFINE reuses == sidecar = c.id /\ c.pat # None
              d == IF c.token \in PatUser
                   THEN [c EXCEPT !.pc = "writeConfig", !.pat = c.token,
                                  !.userChanged = (sidecar \notin {None, c.id})]
                   ELSE IF reuses
                   THEN [c EXCEPT !.pc = "writeConfig", !.pat = c.pat,
                                  !.userChanged = (sidecar \notin {None, c.id})]
                   ELSE [c EXCEPT !.pc = "mint", !.pat = None,
                                  !.userChanged = (sidecar \notin {None, c.id})]
  <2>1. /\ calls' = (calls \ {c}) \cup {d} /\ UNCHANGED <<config, sidecar, faults>> /\ c.pc = "readUserId"
    BY <1>1 DEF choosePat, Becomes, disk
  <2>2. /\ d.for = c.for /\ d.id = c.id /\ d.pc \in {"writeConfig", "mint"}
        /\ (d.pc = "writeConfig" => d.pat = c.token \/ (reuses /\ d.pat = c.pat))
    BY <1>t DEF CallRecord
  <2>p. c.pat = config
    BY <1>1 DEF choosePat, Race, Calm
  <2>. HIDE DEF d
  <2>3. d.pc = "writeConfig" => d.pat = d.id
    BY <2>1, <2>2, <2>p, <1>m, <1>o DEF DiskMatches, Writing
  <2>4. DiskMatches'
    BY <2>1, <2>2, <1>m, <1>u DEF DiskMatches, Renewing, Writing
  <2>. QED
    BY <2>1, <2>2, <2>3, <2>4, <1>m DEF CredentialsMatch
<1>2. CASE mintPat(c)
  <2>. DEFINE d == [c EXCEPT !.pc = "writeConfig", !.pat = c.token]
  <2>1. /\ \/ calls' = (calls \ {c}) \cup {d} /\ faults' = faults
           \/ calls' = calls \ {c} /\ faults' = faults + 1
        /\ UNCHANGED <<config, sidecar>> /\ c.pc = "mint"
    BY <1>2 DEF mintPat, Becomes, Ends, disk
  <2>2. d.for = c.for /\ d.id = c.id /\ d.pc = "writeConfig" /\ d.pat = c.token /\ c.token = c.id
    BY <1>t, <1>o, <2>1 DEF CallRecord, Writing
  <2>. HIDE DEF d
  <2>3. CASE faults' = faults /\ calls' = (calls \ {c}) \cup {d}
    <3>1. DiskMatches'
      BY <2>1, <2>2, <2>3, <1>m, <1>u DEF DiskMatches, Renewing, Writing
    <3>. QED
      BY <2>1, <2>2, <2>3, <3>1, <1>m DEF CredentialsMatch
  <2>4. CASE faults' = faults + 1 /\ calls' = calls \ {c}
    <3>1. DiskMatches'
      BY <1>t, <2>1, <2>4, <1>m DEF DiskMatches
    <3>. QED
      BY <2>1, <2>4, <3>1, <1>m DEF CredentialsMatch
  <2>. QED
    BY <2>1, <2>3, <2>4
<1>3. CASE WriteCredentials(c) /\ c.pc = "writeConfig"
  <2>. DEFINE d == At(c, "writeUserId")
  <2>1. calls' = (calls \ {c}) \cup {d} /\ config' = c.pat /\ UNCHANGED <<sidecar, faults>>
    BY <1>3 DEF WriteCredentials, Becomes
  <2>2. d.id = c.id /\ d.pc = "writeUserId" /\ c.pat = c.id /\ c.id = stored
    BY <1>t, <1>3, <1>m, <1>o, AtFields DEF Label, Writing
  <2>. HIDE DEF d
  <2>3. DiskMatches'
    BY <2>1, <2>2 DEF DiskMatches
  <2>. QED
    BY <2>1, <2>2, <2>3, <1>m, <1>o DEF CredentialsMatch, Writing
<1>4. CASE WriteCredentials(c) /\ c.pc = "writeUserId"
  <2>. DEFINE d == At(c, "rotate")
  <2>1. calls' = (calls \ {c}) \cup {d} /\ sidecar' = c.id /\ UNCHANGED <<config, faults>>
    BY <1>4 DEF WriteCredentials, Becomes
  <2>2. d.pc = "rotate" /\ config = c.id
    BY <1>t, <1>4, <1>m, AtFields DEF Label
  <2>. HIDE DEF d
  <2>3. DiskMatches'
    BY <2>1, <2>2 DEF DiskMatches
  <2>. QED
    BY <2>1, <2>2, <2>3, <1>m DEF CredentialsMatch
<1>5. CASE clearToken(c)
  <2>1. /\ c.pc \in Clearing /\ UNCHANGED faults /\ c.for = "logout"
        /\ \/ UNCHANGED <<config, sidecar>>
           \/ config' = None /\ Touches(c)
           \/ sidecar' = None /\ Touches(c)
    BY <1>5, <1>t DEF clearToken, Placed, Clearing, Touches, disk
  <2>2. \A d \in calls' : d.pc \in Writing => d \in calls
    <3>1. calls' = calls \ {c}
             \/ \E pc \in {"deleteToken", "removeUserId", "guardedStop", "stop"} :
                   calls' = (calls \ {c}) \cup {At(c, pc)}
      BY <1>5, <2>1 DEF clearToken, Becomes, Ends
    <3>2. \A pc \in {"deleteToken", "removeUserId", "guardedStop", "stop"} : At(c, pc).pc = pc
      BY <1>t, AtFields DEF Label, Clearing, Stopping
    <3>. QED
      BY <3>1, <3>2 DEF Writing
  <2>3. Touches(c) => \A d \in calls : d.pc \notin Writing
    <3>1. Touches(c) => \A d \in calls : Touches(d) => d = c
      BY <2>1, <1>t DEF CallsInv, Orderly, OneSession
    <3>. QED
      BY <2>1, <3>1 DEF Writing, Clearing, Touches
  <2>4. \A d \in calls : d.pc \in Writing => d \in calls'
    <3>1. calls \ {c} \subseteq calls' /\ c.pc \notin Writing
      BY <1>5, <2>1 DEF clearToken, Becomes, Ends, Clearing, Writing
    <3>. QED
      BY <3>1
  <2>5. DiskMatches'
    BY <2>1, <2>3, <2>4, <1>m, <1>u DEF DiskMatches, Renewing, Writing
  <2>. QED
    BY <2>1, <2>2, <2>3, <2>5, <1>m DEF CredentialsMatch, Writing
<1>6. CASE RestartOnUserSwitch(c) \/ autoStart(c) \/ startDaemon(c) \/ execStart(c) \/ Started(c)
           \/ stopDaemon(c) \/ execStop(c) \/ Stopped(c)
  <2>1. UNCHANGED <<config, sidecar>> /\ c.pc \notin Writing
    BY <1>6 DEF RestartOnUserSwitch, autoStart, startDaemon, execStart, Started, stopDaemon, execStop,
       Stopped, disk, Writing
  <2>2. PICK next : Resumes(c, next)
    BY ContinueResumes DEF Resumed
  <2>3. /\ \A d \in calls' : d.pc \in Writing => d \in calls
        /\ \A d \in calls : d.pc \in Writing => d \in calls'
    BY <2>1, <2>2 DEF Resumes, Follows
  <2>4. faults' \in {faults, faults + 1}
    BY <1>6 DEF RestartOnUserSwitch, autoStart, startDaemon, execStart, Started, stopDaemon, execStop, Stopped
  <2>5. DiskMatches'
    BY <1>t, <2>1, <2>3, <2>4, <1>m, <1>u DEF DiskMatches, Renewing, Writing
  <2>. QED
    BY <2>1, <2>3, <2>5, <1>m DEF CredentialsMatch, Writing
<1>. QED
  BY <1>0, <1>1, <1>2, <1>3, <1>4, <1>5, <1>6 DEF Continue, WriteCredentials

\* A session begins or ends, or the application is opened again: nothing is about
\* to read or write the credentials, and no write is half done any more.
LEMMA SessionsKeepCredentials ==
    ASSUME CallsInv, CredentialsMatch, [Next]_vars,
           \/ \E u \in User : Login(u) \/ loginWithToken(u)
           \/ logout \/ LinkAnswered \/ AuthInitialized \/ AuthRefused("init") \/ Relaunch
    PROVE  CredentialsMatch'
<1>. SUFFICES ASSUME faults' <= 1, Calm' PROVE CredentialsMatch'
  BY DEF CredentialsMatch
<1>t. faults \in Nat /\ {stored, config, sidecar, awaiting.init, awaiting.link} \subseteq Owner
      /\ awaiting \in [init : Owner, link : Owner]
  BY DEF CallsInv, Types
<1>u. UNCHANGED <<config, sidecar>> /\ faults' \in {faults, faults + 1} /\ Calm /\ OneSession
  <2>1. UNCHANGED <<config, sidecar>> /\ faults' \in {faults, faults + 1} /\ raced \subseteq raced'
    BY DEF Login, loginWithToken, logout, LinkAnswered, AuthInitialized, AuthRefused, Relaunch, disk, bounds,
       Race
  <2>. QED
    BY <2>1, CalmBefore DEF Calm
<1>m. /\ \A d \in calls : d.pc = "writeUserId" => config = d.id
      /\ DiskMatches
  BY <1>t, <1>u DEF CredentialsMatch
<1>1. CASE logout \/ LinkAnswered \/ \E u \in User : Login(u) \/ loginWithToken(u)
  <2>1. /\ \A c \in calls : ~Touches(c)
        /\ awaiting.init = None /\ (stored # None \/ awaiting.link = None)
    <3>1. CASE LinkAnswered
      BY <3>1, <1>u DEF LinkAnswered, OneSession
    <3>2. CASE logout \/ \E u \in User : Login(u) \/ loginWithToken(u)
      BY <3>2, Waits DEF logout, Login, loginWithToken, NotAwaiting
    <3>. QED
      BY <1>1, <3>1, <3>2
  <2>2. config = None \/ sidecar = None \/ config = sidecar
    BY <1>m, <2>1 DEF DiskMatches, Renewing, Writing, Touches
  <2>3. \A c \in calls' : c \in calls \/ c.pc \in {"sync", "clear"}
    BY <1>1 DEF logout, LinkAnswered, Login, loginWithToken, handleDaemonLogout, loginCalls, onAuthTokenCalls,
       Call
  <2>4. \A c \in calls' : c.pc \notin {"writeConfig", "writeUserId"}
    BY <2>1, <2>3 DEF Touches
  <2>. QED
    BY <2>2, <2>4, <1>u DEF CredentialsMatch, DiskMatches
<1>c. ASSUME AuthInitialized \/ AuthRefused("init") \/ Relaunch
      PROVE  \A d \in calls' : d.pc \in {"sync", "clear"}
  <2>1. CASE Relaunch
    BY <2>1 DEF Relaunch, handleDaemonLogout, Call
  <2>2. CASE AuthRefused("init") \/ AuthInitialized
    BY <2>2, <1>u DEF AuthRefused, AuthInitialized, OneSession, handleDaemonLogout, loginCalls, Call
  <2>. QED
    BY <1>c, <2>1, <2>2
<1>2. CASE AuthInitialized
  <2>1. /\ awaiting.init # None /\ calls = {} /\ stored = awaiting.init /\ stored' = stored /\ faults' = faults
        /\ calls' = loginCalls(stored, stored, Fresh)
    BY <1>2, <1>u DEF AuthInitialized, OneSession, bounds
  <2>2. \E c \in calls' : c.for = "login" /\ c.pc \in Writing
    BY <2>1 DEF loginCalls, Call, Writing
  <2>3. DiskMatches'
    BY <1>m, <1>u, <2>1, <2>2 DEF DiskMatches, Renewing
  <2>. QED
    BY <2>3, <1>2, <1>c DEF CredentialsMatch
<1>3. CASE AuthRefused("init")
  <2>1. calls = {} /\ faults' = faults + 1
    BY <1>3, <1>u DEF AuthRefused, OneSession
  <2>2. config = None \/ sidecar = None \/ config = sidecar
    BY <1>m, <1>t, <2>1 DEF DiskMatches
  <2>. QED
    BY <2>2, <1>u, <1>3, <1>c DEF CredentialsMatch, DiskMatches
<1>4. CASE Relaunch
  <2>1. faults' = faults + 1 /\ faults' = 1 /\ stored' = stored /\ awaiting'.init = stored
    BY <1>4, <1>t DEF Relaunch, NotAwaiting
  <2>2. \A c \in calls : c.pc = "writeUserId" => config = stored
    BY <1>m, <1>u DEF OneSession, Writing
  <2>3. DiskMatches'
    BY <1>m, <1>u, <1>t, <2>1, <2>2 DEF DiskMatches, Renewing
  <2>. QED
    BY <2>3, <1>4, <1>c DEF CredentialsMatch
<1>. QED
  BY <1>1, <1>2, <1>3, <1>4

LEMMA CredentialsNext ==
    ASSUME CallsInv, CredentialsMatch, [Next]_vars
    PROVE  CredentialsMatch'
<1>1. CASE \/ \E u \in User : Login(u) \/ loginWithToken(u)
           \/ logout \/ LinkAnswered \/ AuthInitialized \/ AuthRefused("init") \/ Relaunch
  BY <1>1, SessionsKeepCredentials
<1>2. CASE \E c \in calls : Continue(c)
  BY <1>2, CallsCredentials
<1>t. faults \in Nat
  BY DEF CallsInv, Types
<1>4. CASE AuthRefused("link")
  <2>1. UNCHANGED <<calls, config, sidecar, raced>> /\ faults' = faults + 1
    BY <1>4 DEF AuthRefused, disk
  <2>. QED
    BY <2>1, <1>t DEF CredentialsMatch, DiskMatches, Calm
<1>5. CASE \E button \in Buttons : Click(button)
  <2>1. /\ UNCHANGED <<config, sidecar, faults, stored, awaiting, raced>> /\ calls \subseteq calls'
        /\ \A c \in calls' : c \in calls \/ c.pc \in {"start", "stop"}
    BY <1>5 DEF Click, Call, renderer, disk
  <2>. QED
    BY <2>1 DEF CredentialsMatch, DiskMatches, Renewing, Calm
<1>6. CASE Machine \/ UNCHANGED vars
  <2>1. UNCHANGED <<config, sidecar, stored, awaiting, calls, raced>> /\ faults' \in {faults, faults + 1}
    BY <1>6 DEF vars, Machine, bootstrapCli, retryInstall, pollOnce, PollReturns, DaemonLoads, DaemonServes,
       DaemonDies, renderer, disk, bounds
  <2>. QED
    BY <2>1, <1>t DEF CredentialsMatch, DiskMatches, Renewing, Calm
<1>. QED
  BY <1>1, <1>2, <1>4, <1>5, <1>6 DEF Next, Machine, Buttons

\* The PAT that a login writes is that of the user who logs in, for any number
\* of users and sessions, also of those that begin or end while commands of the
\* daemon are under way: a cached PAT is taken only if the sidecar names the
\* user, and the one failure that may separate the two files is repaired by the
\* login that follows it.
THEOREM PatIsOwn == Spec => []WrittenPatIsOwn
<1>1. Init => CredentialsMatch
  <2>. SUFFICES ASSUME Init PROVE CredentialsMatch
    OBVIOUS
  <2>1. \A c \in calls : c.pc = "clear"
    BY DEF Init, handleDaemonLogout, Call
  <2>2. config = None
    BY DEF Init
  <2>. QED
    BY <2>1, <2>2 DEF CredentialsMatch, DiskMatches
<1>2. CallsInv /\ CredentialsMatch /\ [Next]_vars => CredentialsMatch'
  BY CredentialsNext
<1>3. CredentialsMatch => WrittenPatIsOwn
  BY DEF CredentialsMatch, WrittenPatIsOwn, Calm
<1>. QED
  BY <1>1, <1>2, <1>3, CallsAlways, PTL DEF Spec

-----------------------------------------------------------------------------
(* The daemon of the session *)

Untroubled == faults = 0 /\ clicks = 0 /\ raced = {}

\* The daemon serves with the token of a session that is over.
OldRuns == IsUp /\ daemon.token # user

LoggedOut ==
    /\ \A c, d \in calls : c = d
    /\ \A c \in calls : c.for = "logout"
    /\ daemon.phase \in {"down", "running"}
    /\ IsUp => \E c \in calls : c.pc \notin {"stopped", "notStopped"}
    /\ config # None => \E c \in calls : c.pc \in {"clear", "deleteToken"}
    /\ sidecar # None => \E c \in calls : c.pc \in {"clear", "deleteToken", "removeUserId"}

\* What the calls of a login know, and what they still owe.
Credited ==
    /\ \A c \in calls : c.for \in {"login", "link"} \cup Restart
    /\ sidecar = user => config = user
    /\ \A c \in calls : c.pc \notin {"sync", "readUserId", "mint", "writeConfig"} => config = user
    /\ sidecar # user => \E c \in calls : c.pc \in Writing
    /\ \A c \in calls :
           c.pc \in Writing \ {"sync", "readUserId"} /\ sidecar \notin {None, user} => c.userChanged

\* A daemon that comes up is the user's, an old one is stopped by the call that
\* noticed the change of user, and one that is down is started.
Replaced ==
    /\ daemon.phase = "spawned" => config = user
    /\ daemon.phase = "loading" => config = user /\ daemon.token = user
    /\ OldRuns => \/ \E c \in calls : c.pc \in {"mint", "writeConfig", "writeUserId", "rotate"} /\ c.userChanged
                  \/ \E c \in calls : c.pc \in {"stop", "execStop"}
                  \/ sidecar \notin {None, user} /\ \E c \in calls : c.pc \in {"sync", "readUserId"}
    /\ daemon.phase = "down" => \E c \in calls : c.for # "link" /\ c.pc # "started"

Bootstrapped ==
    /\ awaiting.init = None /\ cli # "missing"
    /\ cli = "resolving" => user = None /\ \E c \in calls : c.pc \in Clearing \cup {"stop"}
    /\ awaiting.link # None => calls = {} /\ daemon.phase \in {"down", "running"}
    /\ awaiting.link = None => stored = user
    /\ \A c \in calls : c.pc # "notStopped"

SessionInv ==
    Untroubled =>
        /\ Bootstrapped
        /\ user = None => LoggedOut
        /\ user # None => Credited /\ Replaced

LEMMA SessionInit == Init => SessionInv
<1>. SUFFICES ASSUME Init PROVE SessionInv
  OBVIOUS
<1>1. calls # {} /\ (\A c \in calls : c.for = "logout" /\ c.pc = "clear") /\ \A c, d \in calls : c = d
  BY DEF Init, handleDaemonLogout, Call
<1>2. Bootstrapped /\ LoggedOut /\ user = None
  BY <1>1 DEF Init, Bootstrapped, LoggedOut, NotAwaiting, IsUp, Clearing
<1>. QED
  BY <1>2 DEF SessionInv

\* A call of the logout.
LEMMA LogoutGoesOn ==
    ASSUME CallsInv, Bootstrapped, LoggedOut, user = None, NEW c \in calls, Continue(c), faults' = faults
    PROVE  Bootstrapped' /\ LoggedOut' /\ user' = None
<1>t. /\ c \in CallRecord /\ Placed(c) /\ c.for = "logout" /\ calls = {c} /\ awaiting.link = None
      /\ daemon \in [phase : {"down", "spawned", "loading", "running"}, token : Owner]
      /\ c.pc \in Clearing => operationInProgress = FALSE
      /\ c.pc \in Clearing \cup Stopping
  <2>1. c \in CallRecord /\ Placed(c) /\ c.for = "logout" /\ calls = {c} /\ awaiting.link = None
    BY DEF CallsInv, Types, LoggedOut, Bootstrapped
  <2>2. c.pc \in Clearing \cup Stopping
    BY <2>1 DEF CallRecord, Label, Placed, Restart
  <2>3. c.pc \in Clearing => ~Operates(c)
    BY <2>1 DEF Operates, Clearing, Stopping, Buttons
  <2>. QED
    BY <2>1, <2>2, <2>3 DEF CallsInv, Types, GuardHeld
<1>u. UNCHANGED <<stored, user, awaiting, cli>>
  BY DEF Continue, renderer
<1>b. cli # "missing" /\ c.pc # "notStopped" /\ faults \in Nat
  BY DEF Bootstrapped, CallsInv, Types
<1>f. \A pc \in Clearing \cup Stopping : At(c, pc).pc = pc /\ At(c, pc).for = "logout"
  BY <1>t, AtFields DEF Label
<1>k. ASSUME calls' = {} \/ \E pc \in (Clearing \cup Stopping) \ {"notStopped"} : calls' = {At(c, pc)},
             cli # "resolving" \/ \E pc \in Clearing \cup {"stop"} : calls' = {At(c, pc)}
      PROVE  /\ Bootstrapped' /\ \A d \in calls' : d.for = "logout"
             /\ \A d, e \in calls' : d = e
  <2>0. \A d, e \in calls' : d = e
    BY <1>k
  <2>1. \A d \in calls' : d.for = "logout" /\ d.pc # "notStopped"
    BY <1>k, <1>f
  <2>2. cli = "resolving" => \E d \in calls' : d.pc \in Clearing \cup {"stop"}
    BY <1>k, <1>f DEF Stopping
  <2>. QED
    BY <1>t, <2>0, <2>1, <2>2, <1>u DEF Bootstrapped
<1>1. CASE clearToken(c)
  <2>1. /\ c.pc = "clear" => calls' = {At(c, IF config # None THEN "deleteToken" ELSE "removeUserId")}
                             /\ UNCHANGED <<config, sidecar>>
        /\ c.pc = "deleteToken" => config' = None /\ calls' = {At(c, "removeUserId")} /\ UNCHANGED sidecar
        /\ c.pc = "removeUserId" => sidecar' = None /\ calls' = {At(c, "guardedStop")} /\ UNCHANGED config
        /\ c.pc = "guardedStop" => calls' = {At(c, "stop")} /\ UNCHANGED <<config, sidecar>>
        /\ c.pc \in Clearing /\ UNCHANGED daemon
    BY <1>1, <1>t DEF clearToken, Becomes, disk, Clearing
  <2>2. Bootstrapped' /\ (\A d \in calls' : d.for = "logout") /\ \A d, e \in calls' : d = e
    BY <2>1, <1>k DEF Clearing, Stopping
  <2>3. LoggedOut'
    BY <2>1, <2>2, <1>t, <1>f DEF LoggedOut, IsUp, Clearing, Stopping
  <2>. QED
    BY <2>2, <2>3, <1>u
<1>2. CASE stopDaemon(c)
  <2>1. c.pc = "stop" /\ calls' = {At(c, "execStop")} /\ UNCHANGED <<config, sidecar, daemon>>
    BY <1>2, <1>b, <1>t DEF stopDaemon, Becomes, disk
  <2>n. cli # "resolving"
    BY <1>2 DEF stopDaemon
  <2>2. Bootstrapped' /\ (\A d \in calls' : d.for = "logout") /\ \A d, e \in calls' : d = e
    BY <2>1, <2>n, <1>k DEF Stopping
  <2>3. LoggedOut'
    BY <2>1, <2>2, <1>t, <1>f DEF LoggedOut, IsUp, Stopping
  <2>. QED
    BY <2>2, <2>3, <1>u
<1>r. c.pc \in {"execStop", "stopped"} => cli # "resolving"
  BY <1>t DEF Bootstrapped, Clearing
<1>3. CASE execStop(c)
  <2>1. /\ c.pc = "execStop" /\ calls' = {At(c, "stopped")} /\ UNCHANGED <<config, sidecar>>
        /\ daemon' = IF IsUp THEN [phase |-> "down", token |-> None] ELSE daemon
    BY <1>3, <1>b, <1>t DEF execStop, Becomes, disk
  <2>2. Bootstrapped' /\ (\A d \in calls' : d.for = "logout") /\ \A d, e \in calls' : d = e
    BY <2>1, <1>r, <1>k DEF Stopping
  <2>3. LoggedOut'
    BY <2>1, <2>2, <1>t, <1>f DEF LoggedOut, IsUp, Stopping
  <2>. QED
    BY <2>2, <2>3, <1>u
<1>4. CASE Stopped(c)
  <2>1. c.pc = "stopped" /\ calls' = {} /\ UNCHANGED <<config, sidecar, daemon>>
    BY <1>4, <1>b, <1>t DEF Stopped, Restarts, Done, Ends, disk
  <2>2. Bootstrapped' /\ (\A d \in calls' : d.for = "logout") /\ \A d, e \in calls' : d = e
    BY <2>1, <1>r, <1>k
  <2>3. LoggedOut'
    BY <2>1, <2>2, <1>t DEF LoggedOut, IsUp
  <2>. QED
    BY <2>2, <2>3, <1>u
<1>. QED
  BY <1>1, <1>2, <1>3, <1>4, <1>t DEF Continue, syncToken, choosePat, mintPat, WriteCredentials,
     RestartOnUserSwitch,
     autoStart, startDaemon, execStart, Started, Clearing, Stopping

\* A call of a login, of a deep link or of a restart that they set off.
LoggedIn == Bootstrapped /\ Credited /\ Replaced /\ user # None

Quick == faults' = faults /\ faults = 0 /\ raced' = {} /\ raced = {}

Known(c) ==
    /\ stored' = stored /\ user' = user /\ awaiting' = awaiting /\ cli' = cli
    /\ c \in CallRecord /\ Placed(c) /\ c.for \in {"login", "link"} \cup Restart
    /\ c.pc \in Writing => c.id = user /\ c.token = user
    /\ cli = "found" /\ awaiting.link = None /\ awaiting.init = None /\ stored = user
    /\ ~Guarded(c)
    /\ daemon \in [phase : {"down", "spawned", "loading", "running"}, token : Owner]
    /\ faults \in Nat

LEMMA SessionFacts ==
    ASSUME CallsInv, LoggedIn, NEW c \in calls, Continue(c), Quick
    PROVE  Known(c)
<1>1. awaiting.link = None /\ stored = user
  BY DEF LoggedIn, Bootstrapped
<1>2. c.for \in {"login", "link"} \cup Restart
  BY DEF LoggedIn, Credited
<1>3. ~Guarded(c)
  BY <1>2 DEF Guarded, Restart
<1>4. cli = "found"
  BY DEF LoggedIn, Bootstrapped, CallsInv, Types
<1>. QED
  BY <1>1, <1>2, <1>3, <1>4 DEF CallsInv, Types, Orderly, Calm, OneSession, Quick, LoggedIn, Bootstrapped,
     Continue,
     renderer, Known

\* What follows for the application from what follows for the calls.
LEMMA BootstrappedGoesOn ==
    ASSUME CallsInv, LoggedIn, NEW c \in calls, Continue(c), Quick,
           \A d \in calls' : d \in calls \/ (d.for \in {"login", "link"} \cup Restart /\ d.pc # "notStopped")
    PROVE  /\ Bootstrapped' /\ \A d \in calls' : d.for \in {"login", "link"} \cup Restart
BY SessionFacts DEF LoggedIn, Bootstrapped, Credited, Known

LEMMA SyncGoesOn ==
    ASSUME CallsInv, CredentialsMatch, LoggedIn, NEW c \in calls, Continue(c), Quick,
           syncToken(c) \/ choosePat(c) \/ mintPat(c)
    PROVE  LoggedIn'
<1>t. Known(c)
  BY SessionFacts
<1>. USE DEF Known
<1>. DEFINE Goes(d) == /\ d.for = c.for /\ calls' = (calls \ {c}) \cup {d}
                       /\ \/ c.pc = "sync" /\ d.pc = "readUserId"
                          \/ /\ c.pc = "readUserId" /\ d.pc \in {"mint", "writeConfig"}
                             /\ d.userChanged <=> sidecar \notin {None, user}
                          \/ c.pc = "mint" /\ d.pc = "writeConfig" /\ d.userChanged = c.userChanged
<1>1. \E d : Goes(d)
  <2>0. CASE syncToken(c)
    <3>. DEFINE d == [c EXCEPT !.pc = "readUserId", !.pat = config]
    <3>1. calls' = (calls \ {c}) \cup {d} /\ c.pc = "sync"
      BY <2>0, <1>t DEF syncToken, Becomes
    <3>2. d.for = c.for /\ d.pc = "readUserId"
      BY <1>t DEF CallRecord
    <3>. QED
      BY <3>1, <3>2
  <2>1. CASE choosePat(c)
    <3>. DEFINE changed == sidecar \notin {None, c.id}
                d == IF c.token \in PatUser
                     THEN [c EXCEPT !.pc = "writeConfig", !.pat = c.token, !.userChanged = changed]
                     ELSE IF sidecar = c.id /\ c.pat # None
                     THEN [c EXCEPT !.pc = "writeConfig", !.pat = c.pat, !.userChanged = changed]
                     ELSE [c EXCEPT !.pc = "mint", !.pat = None, !.userChanged = changed]
    <3>1. calls' = (calls \ {c}) \cup {d} /\ c.pc = "readUserId" /\ c.id = user
      BY <2>1, <1>t DEF choosePat, Becomes, Writing
    <3>2. d.for = c.for /\ d.pc \in {"mint", "writeConfig"} /\ (d.userChanged <=> sidecar \notin {None, user})
      BY <1>t, <3>1 DEF CallRecord
    <3>. QED
      BY <3>1, <3>2
  <2>2. CASE mintPat(c)
    <3>. DEFINE d == [c EXCEPT !.pc = "writeConfig", !.pat = c.token]
    <3>1. calls' = (calls \ {c}) \cup {d} /\ c.pc = "mint"
      BY <2>2, <1>t DEF mintPat, Becomes, Quick
    <3>2. d.for = c.for /\ d.pc = "writeConfig" /\ d.userChanged = c.userChanged
      BY <1>t DEF CallRecord
    <3>. QED
      BY <3>1, <3>2
  <2>. QED
    BY <2>0, <2>1, <2>2
<1>2. PICK d : Goes(d)
  BY <1>1
<1>3. UNCHANGED <<config, sidecar, daemon>>
  BY DEF syncToken, choosePat, mintPat, disk
<1>4. Bootstrapped' /\ \A e \in calls' : e.for \in {"login", "link"} \cup Restart
  <2>1. \A e \in calls' : e \in calls \/ (e.for \in {"login", "link"} \cup Restart /\ e.pc # "notStopped")
    BY <1>2, <1>t
  <2>. QED
    BY <2>1, BootstrappedGoesOn
<1>5. Credited'
  BY <1>2, <1>3, <1>4, <1>t DEF LoggedIn, Credited, Writing
<1>6. Replaced'
  BY <1>2, <1>3, <1>t DEF LoggedIn, Credited, Replaced, OldRuns, IsUp, Writing
<1>. QED
  BY <1>4, <1>5, <1>6, <1>t DEF LoggedIn

LEMMA WriteGoesOn ==
    ASSUME CallsInv, CredentialsMatch, LoggedIn, NEW c \in calls, Continue(c), Quick,
           WriteCredentials(c)
    PROVE  LoggedIn'
<1>t. Known(c)
  BY SessionFacts
<1>. USE DEF Known
<1>. DEFINE pc == IF c.pc = "writeConfig" THEN "writeUserId" ELSE "rotate"
            d  == At(c, pc)
<1>1. /\ calls' = (calls \ {c}) \cup {d} /\ c.pc \in {"writeConfig", "writeUserId"}
      /\ daemon' = daemon
  BY DEF WriteCredentials, Becomes
<1>2. /\ d.for = c.for /\ d.userChanged = c.userChanged
      /\ d.pc = IF c.pc = "writeConfig" THEN "writeUserId" ELSE "rotate"
  <2>1. pc \in Label
    BY DEF Label, Writing
  <2>2. \A p \in Label : At(c, p).for = c.for /\ At(c, p).userChanged = c.userChanged /\ At(c, p).pc = p
    BY <1>t, AtFields
  <2>. QED
    BY <2>1, <2>2
<1>. HIDE DEF d, pc
<1>3. \/ c.pc = "writeConfig" /\ config' = user /\ sidecar' = sidecar
      \/ c.pc = "writeUserId" /\ config' = config /\ sidecar' = user /\ config = user
  <2>1. c.pc = "writeConfig" => c.pat = user
    BY <1>t DEF CredentialsMatch, Quick, Calm, Writing
  <2>2. c.pc = "writeUserId" => config = user
    BY DEF LoggedIn, Credited
  <2>. QED
    BY <1>t, <2>1, <2>2 DEF WriteCredentials, Writing
<1>4. Bootstrapped' /\ \A e \in calls' : e.for \in {"login", "link"} \cup Restart
  <2>1. \A e \in calls' : e \in calls \/ (e.for \in {"login", "link"} \cup Restart /\ e.pc # "notStopped")
    BY <1>1, <1>2, <1>t
  <2>. QED
    BY <2>1, BootstrappedGoesOn
<1>5. Credited'
  BY <1>1, <1>2, <1>3, <1>4, <1>t DEF LoggedIn, Credited, Writing
<1>6. Replaced'
  BY <1>1, <1>2, <1>3, <1>t DEF LoggedIn, Credited, Replaced, OldRuns, IsUp, Writing
<1>. QED
  BY <1>4, <1>5, <1>6, <1>t DEF LoggedIn

LEMMA RotateGoesOn ==
    ASSUME CallsInv, LoggedIn, NEW c \in calls, Continue(c), Quick, RestartOnUserSwitch(c)
    PROVE  LoggedIn'
<1>t. Known(c)
  BY SessionFacts
<1>. USE DEF Known
<1>. DEFINE r == [At(c, "stop") EXCEPT !.for = Restarting(c)]
            a == At(c, "autoStart")
<1>1. /\ calls' = (calls \ {c}) \cup AfterSync(c) \cup (IF c.userChanged /\ IsUp THEN {r} ELSE {})
      /\ AfterSync(c) = IF c.for = "login" THEN {a} ELSE {}
      /\ c.pc = "rotate" /\ UNCHANGED <<config, sidecar, daemon>>
  BY DEF RestartOnUserSwitch, AfterSync, disk
<1>2. /\ r.pc = "stop" /\ r.for \in Restart /\ r.for # "link"
      /\ a.pc = "autoStart" /\ a.for = c.for
  BY <1>t DEF At, CallRecord, Restarting, Restart
<1>. HIDE DEF r, a
<1>3. \A e \in calls' : e \in calls \ {c} \/ e = r \/ (e = a /\ c.for = "login")
  BY <1>1
<1>c. /\ config = user /\ \A e \in calls \ {c} : e \in calls'
      /\ c.for = "login" => a \in calls'
      /\ c.userChanged /\ IsUp => r \in calls'
  BY <1>1 DEF LoggedIn, Credited
<1>p. c.for \in {"login", "link"}
  BY <1>t, <1>1 DEF Placed
<1>4. Bootstrapped' /\ \A e \in calls' : e.for \in {"login", "link"} \cup Restart
  <2>1. \A e \in calls' : e \in calls \/ (e.for \in {"login", "link"} \cup Restart /\ e.pc # "notStopped")
    BY <1>2, <1>3, <1>t
  <2>. QED
    BY <2>1, BootstrappedGoesOn
<1>5. Credited'
  <2>1. sidecar # user => \E e \in calls' : e.pc \in Writing
    BY <1>1, <1>c DEF LoggedIn, Credited, Writing
  <2>2. \A e \in calls' : e.pc \in Writing => e \in calls
    BY <1>2, <1>3 DEF Writing
  <2>. QED
    BY <1>1, <1>c, <1>4, <1>t, <2>1, <2>2 DEF LoggedIn, Credited
<1>6. Replaced'
  <2>1. daemon.phase = "down" => \E e \in calls' : e.for # "link" /\ e.pc # "started"
    BY <1>1, <1>2, <1>c, <1>p DEF LoggedIn, Replaced
  <2>2. OldRuns =>
          \/ \E e \in calls' : e.pc \in {"mint", "writeConfig", "writeUserId", "rotate"} /\ e.userChanged
          \/ \E e \in calls' : e.pc \in {"stop", "execStop"}
          \/ sidecar \notin {None, user} /\ \E e \in calls' : e.pc \in {"sync", "readUserId"}
    BY <1>1, <1>2, <1>c DEF LoggedIn, Replaced, OldRuns
  <2>. QED
    BY <1>1, <1>t, <2>1, <2>2 DEF LoggedIn, Replaced, OldRuns, IsUp
<1>. QED
  BY <1>4, <1>5, <1>6, <1>t DEF LoggedIn

\* A command: the call goes on to another label of a command or is over, and
\* the files are left alone.
LEMMA CommandKeepsCredits ==
    ASSUME CallsInv, LoggedIn, NEW c \in calls, Continue(c), Quick,
           c.pc \in Commanding, UNCHANGED <<config, sidecar>>,
           calls' = calls \ {c} \/ \E pc \in Starting \cup (Stopping \ {"notStopped"}) :
                                        calls' = (calls \ {c}) \cup {At(c, pc)}
    PROVE  /\ Bootstrapped' /\ Credited' /\ user' # None /\ config = user
           /\ \A d \in calls : d # c => d \in calls'
<1>t. Known(c)
  BY SessionFacts
<1>. USE DEF Known
<1>1. \A pc \in Starting \cup Stopping : At(c, pc).pc = pc /\ At(c, pc).for = c.for
  BY <1>t, AtFields DEF Label
<1>2. /\ \A d \in calls : d # c => d \in calls'
      /\ \A d \in calls' :
            d \in calls \/ (d.for = c.for /\ d.pc \in (Starting \cup Stopping) \ {"notStopped"})
  <2>1. CASE calls' = calls \ {c}
    BY <2>1
  <2>2. ASSUME NEW pc \in Starting \cup (Stopping \ {"notStopped"}), calls' = (calls \ {c}) \cup {At(c, pc)}
        PROVE  /\ \A d \in calls : d # c => d \in calls'
               /\ \A d \in calls' :
                     d \in calls \/ (d.for = c.for /\ d.pc \in (Starting \cup Stopping) \ {"notStopped"})
    <3>1. At(c, pc).pc = pc /\ At(c, pc).for = c.for /\ pc # "notStopped"
      BY <1>1 DEF Starting
    <3>. QED
      BY <2>2, <3>1
  <2>. QED
    BY <2>1, <2>2
<1>3. Bootstrapped' /\ \A e \in calls' : e.for \in {"login", "link"} \cup Restart
  BY <1>2, <1>t, BootstrappedGoesOn
<1>4. config = user /\ c.pc \notin Writing
  BY DEF LoggedIn, Credited, Commanding, Starting, Stopping, Writing
<1>5. \A d \in calls' : d.pc \in Writing => d \in calls
  BY <1>2 DEF Starting, Stopping, Writing
<1>6. Credited'
  BY <1>2, <1>3, <1>4, <1>5, <1>t DEF LoggedIn, Credited
<1>. QED
  BY <1>2, <1>3, <1>4, <1>6, <1>t DEF LoggedIn

LEMMA StartGoesOn ==
    ASSUME CallsInv, LoggedIn, NEW c \in calls, Continue(c), Quick,
           autoStart(c) \/ startDaemon(c) \/ execStart(c) \/ Started(c)
    PROVE  LoggedIn'
<1>t. Known(c)
  BY SessionFacts
<1>1. /\ c.pc \in {"autoStart", "start", "execStart", "started"} /\ UNCHANGED <<config, sidecar>>
      /\ calls' = calls \ {c} \/ \E pc \in Starting : calls' = (calls \ {c}) \cup {At(c, pc)}
  BY DEF autoStart, startDaemon, execStart, Started, Done, Ends, Becomes, disk, Starting
<1>2. /\ Bootstrapped' /\ Credited' /\ user' # None /\ config = user
      /\ \A d \in calls : d # c => d \in calls'
  BY <1>1, CommandKeepsCredits DEF Commanding, Starting
<1>3. \A pc \in Starting : At(c, pc).pc = pc /\ At(c, pc).for = c.for
  BY <1>t, AtFields DEF Label, Known
<1>p. c.for # "link"
  BY <1>t, <1>1 DEF Known, Placed, Starting, Restart
<1>u. user' = user /\ config' = config /\ sidecar' = sidecar
  BY <1>t, <1>1 DEF Known
<1>o. OldRuns =>
          \/ \E e \in calls' : e.pc \in {"mint", "writeConfig", "writeUserId", "rotate"} /\ e.userChanged
          \/ \E e \in calls' : e.pc \in {"stop", "execStop"}
          \/ sidecar \notin {None, user} /\ \E e \in calls' : e.pc \in {"sync", "readUserId"}
  BY <1>1, <1>2 DEF LoggedIn, Replaced
<1>4. CASE daemon' = daemon /\ (daemon.phase = "down" => c.pc = "started"
                                   \/ \E pc \in {"start", "execStart"} : calls' = (calls \ {c}) \cup {At(c, pc)})
  <2>1. daemon.phase = "down" => \E e \in calls' : e.for # "link" /\ e.pc # "started"
    BY <1>2, <1>3, <1>p, <1>4 DEF LoggedIn, Replaced, Starting
  <2>2. Replaced'
    BY <1>o, <1>u, <1>4, <2>1 DEF LoggedIn, Replaced, OldRuns, IsUp
  <2>. QED
    BY <1>2, <2>2 DEF LoggedIn
<1>5. CASE daemon' = [phase |-> "spawned", token |-> None]
  <2>1. Replaced'
    BY <1>2, <1>5, <1>u DEF Replaced, OldRuns, IsUp
  <2>. QED
    BY <1>2, <2>1 DEF LoggedIn
<1>6. \/ daemon' = daemon /\ (daemon.phase = "down" => c.pc = "started"
              \/ \E pc \in {"start", "execStart"} : calls' = (calls \ {c}) \cup {At(c, pc)})
      \/ daemon' = [phase |-> "spawned", token |-> None]
  BY <1>t DEF Known, autoStart, startDaemon, execStart, Started, Becomes, IsUp
<1>. QED
  BY <1>4, <1>5, <1>6

LEMMA StopGoesOn ==
    ASSUME CallsInv, LoggedIn, NEW c \in calls, Continue(c), Quick,
           stopDaemon(c) \/ execStop(c) \/ Stopped(c)
    PROVE  LoggedIn'
<1>t. Known(c)
  BY SessionFacts
<1>r. c.for \in Restart /\ Restarts(c)
  BY <1>t DEF Known, Placed, Restarts, Restart, stopDaemon, execStop, Stopped, Stopping
<1>n. c.pc # "notStopped"
  BY DEF LoggedIn, Bootstrapped
<1>1. /\ UNCHANGED <<config, sidecar>>
      /\ \/ c.pc = "stop" /\ calls' = (calls \ {c}) \cup {At(c, "execStop")} /\ daemon' = daemon
         \/ /\ c.pc = "execStop" /\ calls' = (calls \ {c}) \cup {At(c, "stopped")}
            /\ daemon' = IF IsUp THEN [phase |-> "down", token |-> None] ELSE daemon
         \/ c.pc = "stopped" /\ calls' = (calls \ {c}) \cup {At(c, "start")} /\ daemon' = daemon
  BY <1>t, <1>r, <1>n DEF Known, Quick, stopDaemon, execStop, Stopped, Becomes, disk
<1>2. /\ Bootstrapped' /\ Credited' /\ user' # None /\ config = user
      /\ \A d \in calls : d # c => d \in calls'
  <2>1. c.pc \in Commanding /\ \E pc \in Starting \cup (Stopping \ {"notStopped"}) :
                                  calls' = (calls \ {c}) \cup {At(c, pc)}
    BY <1>1 DEF Commanding, Starting, Stopping
  <2>. QED
    BY <1>1, <2>1, CommandKeepsCredits
<1>3. \A pc \in {"execStop", "stopped", "start"} : At(c, pc).pc = pc /\ At(c, pc).for # "link"
  <2>1. c \in CallRecord /\ c.for # "link"
    BY <1>t, <1>r DEF Known, Restart
  <2>2. {"execStop", "stopped", "start"} \subseteq Label
    BY DEF Label, Starting, Stopping
  <2>3. \A pc \in {"execStop", "stopped", "start"} : At(c, pc).pc = pc /\ At(c, pc).for = c.for
    BY <2>1, <2>2, AtFields
  <2>. QED
    BY <2>1, <2>3
<1>u. user' = user /\ config' = config /\ sidecar' = sidecar
  BY <1>t, <1>1 DEF Known
<1>4. \E e \in calls' : e.for # "link" /\ e.pc # "started"
  BY <1>1, <1>3
<1>5. Replaced'
  <2>1. CASE c.pc = "stop"
    BY <2>1, <1>1, <1>2, <1>3, <1>4, <1>u DEF LoggedIn, Replaced, OldRuns, IsUp
  <2>2. CASE c.pc = "execStop"
    <3>1. ~(daemon'.phase = "running")
      BY <2>2, <1>1 DEF IsUp
    <3>2. daemon' = daemon \/ daemon'.phase = "down"
      BY <2>2, <1>1
    <3>. QED
      BY <3>1, <3>2, <1>2, <1>4, <1>u DEF LoggedIn, Replaced, OldRuns, IsUp
  <2>3. CASE c.pc = "stopped"
    BY <2>3, <1>1, <1>2, <1>3, <1>4, <1>u DEF LoggedIn, Replaced, OldRuns, IsUp
  <2>. QED
    BY <1>1, <2>1, <2>2, <2>3
<1>. QED
  BY <1>2, <1>5 DEF LoggedIn

LEMMA UserActs ==
    ASSUME CallsInv, SessionInv, [Next]_vars, Untroubled',
           LinkAnswered \/ logout \/ \E u \in User : Login(u) \/ loginWithToken(u)
    PROVE  SessionInv'
<1>1. /\ Bootstrapped /\ (user = None => LoggedOut) /\ (user # None => Credited /\ Replaced)
      /\ UNCHANGED <<config, sidecar, daemon, cli>> /\ calls = {} /\ daemon.phase \in {"down", "running"}
  <2>1. UNCHANGED <<config, sidecar, daemon, cli, faults, clicks>> /\ raced \subseteq raced'
    BY DEF LinkAnswered, logout, Login, loginWithToken, Race, disk, bounds
  <2>2. Bootstrapped /\ (user = None => LoggedOut) /\ (user # None => Credited /\ Replaced) /\ raced = {}
    BY <2>1 DEF SessionInv, Untroubled
  <2>3. CASE LinkAnswered
    BY <2>1, <2>2, <2>3 DEF LinkAnswered, Bootstrapped
  <2>4. CASE logout \/ \E u \in User : Login(u) \/ loginWithToken(u)
    BY <2>1, <2>2, <2>4 DEF logout, Login, loginWithToken, Race, Unfinished, Untroubled, Settled
  <2>. QED
    BY <2>1, <2>2, <2>3, <2>4
<1>2. /\ cli = "found" /\ awaiting.init = None
      /\ user = None => config = None /\ sidecar = None /\ daemon.phase = "down"
      /\ user # None => config = user /\ sidecar = user /\ daemon.phase = "running" /\ daemon.token = user
  <2>1. cli = "found" /\ awaiting.init = None
    BY <1>1 DEF Bootstrapped, CallsInv, Types
  <2>2. user = None => config = None /\ sidecar = None /\ daemon.phase = "down"
    BY <1>1 DEF LoggedOut, IsUp
  <2>3. user # None => config = user /\ sidecar = user /\ daemon.phase = "running"
    BY <1>1 DEF Credited, Replaced
  <2>4. user # None => daemon.token = user
    BY <1>1, <2>3 DEF Replaced, OldRuns, IsUp
  <2>. QED
    BY <2>1, <2>2, <2>3, <2>4
<1>s. ASSUME logout \/ \E u \in User : Login(u) PROVE awaiting = NotAwaiting
  BY <1>s DEF logout, Login, Race, Unfinished, Untroubled
<1>f. None \notin User /\ awaiting \in [init : Owner, link : Owner]
  BY DEF CallsInv, Types
<1>3. ASSUME NEW u \in User, user' = u, stored' = u, awaiting'.init = None, awaiting'.link = None,
             \A c \in calls' : c.for \in {"login", "link"} /\ c.pc = "sync",
             \E c \in calls' : c.for = "login"
      PROVE  SessionInv'
  <2>1. Bootstrapped'
    BY <1>1, <1>2, <1>f, <1>3 DEF Bootstrapped
  <2>2. Credited'
    BY <1>1, <1>2, <1>f, <1>3 DEF Credited, Writing
  <2>3. Replaced'
    BY <1>1, <1>2, <1>f, <1>3 DEF Replaced, OldRuns, IsUp
  <2>. QED
    BY <2>1, <2>2, <2>3, <1>3, <1>f DEF SessionInv
<1>4. CASE \E u \in User : Login(u)
  <2>. PICK u \in User : Login(u)
    BY <1>4
  <2>1. /\ awaiting' = awaiting /\ awaiting = NotAwaiting /\ user' = u /\ stored' = u
        /\ calls' = {Call("login", "sync", u, u, Fresh)}
    <3>1. awaiting = NotAwaiting
      BY <1>s
    <3>. QED
      BY <3>1, <1>1, <1>f DEF Login, loginCalls
  <2>2. \A c \in calls' : c.for = "login" /\ c.pc = "sync"
    BY <2>1 DEF Call
  <2>. QED
    BY <2>1, <2>2, <1>3 DEF NotAwaiting
<1>5. CASE LinkAnswered
  <2>1. /\ awaiting.link \in User /\ stored = awaiting.link /\ user' = awaiting.link /\ stored' = stored
        /\ awaiting' = [awaiting EXCEPT !.link = None]
        /\ calls' = {Call("login", "sync", stored, stored, Fresh), Call("link", "sync", stored, stored, Fresh)}
    <3>1. awaiting.link # None /\ stored = awaiting.link
      BY <1>5, CalmBefore DEF LinkAnswered, OneSession, Untroubled, Calm
    <3>. QED
      BY <3>1, <1>5, <1>1, <1>f DEF LinkAnswered, loginCalls, onAuthTokenCalls, Owner
  <2>2. awaiting'.init = None /\ awaiting'.link = None
    BY <2>1, <1>2, <1>f
  <2>3. /\ \A c \in calls' : c.for \in {"login", "link"} /\ c.pc = "sync"
        /\ \E c \in calls' : c.for = "login"
    BY <2>1 DEF Call
  <2>. QED
    BY <2>1, <2>2, <2>3, <1>3
<1>6. CASE \E u \in User : loginWithToken(u)
  <2>1. calls' = {} /\ user' = user /\ awaiting'.init = None /\ awaiting'.link # None
    BY <1>6, <1>1, <1>2, <1>f DEF loginWithToken
  <2>2. Bootstrapped'
    BY <2>1, <1>1, <1>2 DEF Bootstrapped
  <2>3. user = None => LoggedOut'
    BY <2>1, <1>1, <1>2 DEF LoggedOut, IsUp
  <2>4. user # None => Credited' /\ Replaced'
    BY <2>1, <1>1, <1>2 DEF Credited, Replaced, OldRuns, IsUp
  <2>. QED
    BY <2>1, <2>2, <2>3, <2>4 DEF SessionInv
<1>7. CASE logout
  <2>1. /\ calls' = {Call("logout", "clear", None, None, Fresh)} /\ user' = None /\ stored' = None
        /\ awaiting' = awaiting /\ awaiting = NotAwaiting
    BY <1>7, <1>1, <1>s DEF logout, handleDaemonLogout
  <2>2. /\ \A c \in calls' : c.for = "logout" /\ c.pc = "clear"
        /\ \E c \in calls' : c.pc = "clear"
        /\ \A c, d \in calls' : c = d
    BY <2>1 DEF Call
  <2>3. Bootstrapped'
    BY <2>1, <2>2, <1>1, <1>2 DEF Bootstrapped, NotAwaiting
  <2>4. LoggedOut'
    BY <2>1, <2>2, <1>1 DEF LoggedOut, IsUp
  <2>. QED
    BY <2>1, <2>3, <2>4 DEF SessionInv
<1>. QED
  BY <1>4, <1>5, <1>6, <1>7

LEMMA MachineKeepsSession ==
    ASSUME CallsInv, SessionInv, Untroubled', Machine \/ UNCHANGED vars
    PROVE  SessionInv'
<1>1. /\ UNCHANGED <<stored, user, awaiting, calls, config, sidecar, raced, clicks>>
      /\ faults' \in {faults, faults + 1} /\ faults \in Nat
  BY DEF vars, Machine, bootstrapCli, retryInstall, pollOnce, PollReturns, DaemonLoads, DaemonServes,
     DaemonDies, renderer, disk, bounds, CallsInv, Types
<1>2. /\ faults' = faults
      /\ Bootstrapped /\ (user = None => LoggedOut) /\ (user # None => Credited /\ Replaced)
  BY <1>1 DEF SessionInv, Untroubled
<1>3. cli' \in {cli, "found"}
  BY <1>1, <1>2 DEF Bootstrapped, vars, Machine, bootstrapCli, retryInstall, pollOnce, PollReturns,
     DaemonLoads, DaemonServes, DaemonDies
<1>4. \/ daemon' = daemon
      \/ daemon.phase = "spawned" /\ user # None /\ daemon' = [phase |-> "loading", token |-> user]
      \/ daemon.phase = "loading" /\ user # None /\ daemon' = [phase |-> "running", token |-> user]
  <2>1. CASE DaemonLoads
    <3>1. user # None /\ config = user
      BY <2>1, <1>2 DEF DaemonLoads, LoggedOut, Replaced
    <3>. QED
      BY <2>1, <3>1 DEF DaemonLoads
  <2>2. CASE DaemonServes
    <3>1. user # None /\ daemon.token = user
      BY <2>2, <1>2 DEF DaemonServes, LoggedOut, Replaced
    <3>. QED
      BY <2>2, <3>1 DEF DaemonServes, CallsInv, Types
  <2>3. CASE DaemonDies
    BY <2>3, <1>1, <1>2 DEF DaemonDies
  <2>4. CASE bootstrapCli \/ retryInstall \/ pollOnce \/ PollReturns \/ UNCHANGED vars
    BY <2>4 DEF bootstrapCli, retryInstall, pollOnce, PollReturns, vars
  <2>. QED
    BY <2>1, <2>2, <2>3, <2>4 DEF Machine
<1>5. Bootstrapped'
  BY <1>1, <1>2, <1>3, <1>4 DEF Bootstrapped
<1>6. user = None => LoggedOut'
  BY <1>1, <1>2, <1>4 DEF LoggedOut, IsUp
<1>7. user # None => Credited'
  BY <1>1, <1>2 DEF Credited
<1>8. user # None => Replaced'
  <2>. SUFFICES ASSUME user # None PROVE Replaced'
    OBVIOUS
  <2>1. CASE daemon' = daemon
    BY <2>1, <1>1, <1>2 DEF Replaced, OldRuns, IsUp
  <2>2. CASE daemon' # daemon
    <3>1. daemon'.token = user /\ daemon'.phase \in {"loading", "running"} /\ config = user
      BY <2>2, <1>2, <1>4 DEF Replaced
    <3>. QED
      BY <3>1, <1>1 DEF Replaced, OldRuns, IsUp
  <2>. QED
    BY <2>1, <2>2
<1>. QED
  BY <1>1, <1>5, <1>6, <1>7, <1>8 DEF SessionInv

LEMMA SessionNext ==
    ASSUME CallsInv, CredentialsMatch, SessionInv, [Next]_vars
    PROVE  SessionInv'
<1>. SUFFICES ASSUME Untroubled' PROVE SessionInv'
  BY DEF SessionInv
<1>t. faults \in Nat /\ clicks \in Nat
  BY DEF CallsInv, Types
<1>1. CASE LinkAnswered \/ logout \/ \E u \in User : Login(u) \/ loginWithToken(u)
  BY <1>1, UserActs
<1>2. CASE Machine \/ UNCHANGED vars
  BY <1>2, MachineKeepsSession
<1>3. ASSUME NEW c \in calls, Continue(c) PROVE SessionInv'
  <2>1. /\ faults' >= faults /\ faults' = 0 /\ clicks' = clicks /\ clicks' = 0
        /\ raced \subseteq raced' /\ raced' = {}
    BY <1>3, ContinueOthers DEF Untroubled, Continue
  <2>2. Quick /\ Untroubled
    BY <2>1, <1>t DEF Quick, Untroubled
  <2>3. CASE user = None
    <3>1. Bootstrapped' /\ LoggedOut' /\ user' = None
      BY <2>2, <2>3, <1>3, LogoutGoesOn DEF SessionInv, Quick
    <3>. QED
      BY <3>1 DEF SessionInv
  <2>4. CASE user # None
    <3>1. LoggedIn
      BY <2>2, <2>4 DEF SessionInv, LoggedIn
    <3>2. ~clearToken(c)
      BY <3>1 DEF LoggedIn, Credited, CallsInv, Types, Placed, clearToken, Clearing, Restart
    <3>3. LoggedIn'
      BY <3>1, <3>2, <2>2, <1>3, SyncGoesOn, WriteGoesOn, RotateGoesOn, StartGoesOn, StopGoesOn DEF Continue
    <3>. QED
      BY <3>3 DEF SessionInv, LoggedIn
  <2>. QED
    BY <2>3, <2>4
<1>4. CASE AuthInitialized
  <2>1. Untroubled
    BY <1>4 DEF AuthInitialized, Untroubled, bounds
  <2>. QED
    BY <2>1, <1>4 DEF AuthInitialized, SessionInv, Bootstrapped
<1>5. CASE Relaunch \/ \E asker \in {"init", "link"} : AuthRefused(asker)
  BY <1>5, <1>t DEF Relaunch, AuthRefused, Untroubled
<1>6. CASE \E button \in Buttons : Click(button)
  BY <1>6, <1>t DEF Click, Untroubled
<1>. QED
  BY <1>1, <1>2, <1>3, <1>4, <1>5, <1>6 DEF Next, Machine, Buttons

LEMMA SessionAlways == Spec => [](CallsInv /\ SessionInv)
<1>1. Init => CallsInv /\ CredentialsMatch /\ SessionInv
  <2>. SUFFICES ASSUME Init PROVE CredentialsMatch
    BY CallsInit, SessionInit
  <2>1. config = None /\ \A c \in calls : c.pc = "clear"
    BY DEF Init, handleDaemonLogout, Call
  <2>. QED
    BY <2>1 DEF CredentialsMatch, DiskMatches
<1>2. CallsInv /\ CredentialsMatch /\ SessionInv /\ [Next]_vars
          => (CallsInv /\ CredentialsMatch /\ SessionInv)'
  BY CallsNext, CredentialsNext, SessionNext
<1>. QED
  BY <1>1, <1>2, PTL DEF Spec

\* When everything has been answered, nothing has failed and each session began
\* and ended when the one before had settled, a daemon that runs does so with the
\* token of the user who is logged in, for any number of users and sessions:
\* whatever syncs and restarts of one session overlap, the one that noticed the
\* change of user stops the daemon of the user before.
THEOREM TokensFollow == Spec => []CredentialsFollowUser
<1>1. CallsInv /\ SessionInv => CredentialsFollowUser
  <2>. SUFFICES ASSUME CallsInv, SessionInv, Settled, Untroubled, IsUp
                PROVE  daemon.token = user
    BY DEF CredentialsFollowUser, Untroubled
  <2>1. user # None
    BY DEF SessionInv, LoggedOut, Settled
  <2>. QED
    BY <2>1 DEF SessionInv, Replaced, OldRuns, Settled
<1>. QED
  BY <1>1, SessionAlways, PTL

\* Under the same conditions a daemon runs exactly if somebody is logged in:
\* what is down while a session lasts is owed a start, and a logout is over only
\* when nothing runs.
THEOREM DaemonFollows == Spec => []DaemonFollowsSession
<1>1. CallsInv /\ SessionInv => DaemonFollowsSession
  <2>. SUFFICES ASSUME CallsInv, SessionInv, Settled, Untroubled
                PROVE  IsUp <=> user # None
    BY DEF DaemonFollowsSession, Untroubled
  <2>. QED
    BY DEF SessionInv, LoggedOut, Replaced, Settled, IsUp
<1>. QED
  BY <1>1, SessionAlways, PTL
=============================================================================
