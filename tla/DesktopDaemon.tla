----------------------------- MODULE DesktopDaemon -----------------------------
(****************************************************************************)
(* The desktop application and its local agent daemon: who is logged in     *)
(* (App.tsx, auth/store.ts, auth-initializer.tsx), and what the main        *)
(* process does about it (daemon-manager.ts). Everything is asynchronous    *)
(* and single threaded: a step is what runs between two awaits. A token, be *)
(* it of a session or a PAT, is modelled by the user it belongs to.         *)
(*                                                                          *)
(* Nothing makes users wait before they log in or out, and the two files    *)
(* with the credentials are read one after the other. The variable raced    *)
(* remembers what has come on top of what, so that a property can say which *)
(* races it survives.                                                       *)
(*                                                                          *)
(* A definition named X_Fault... is X with a plausible bug, for showing     *)
(* that a property can fail.                                                *)
(****************************************************************************)
EXTENDS Integers, FiniteSets

CONSTANTS
    User,
    None,
    PatUser,       \* users whose token from the renderer is a PAT already
    Batch,         \* names of the batches of calls that the renderer makes
    Races,         \* bound on what may race: commands, credentials, files
    MaxSessions,   \* bound on logins and deep links
    MaxTrouble     \* bound on uses of the start, stop and restart buttons, exits of the
                   \* application, and requests, commands and daemons that fail

ASSUME DesktopAssumption ==
    /\ None \notin User
    /\ PatUser \subseteq User /\ Batch # {}
    /\ Races \subseteq {"commands", "credentials", "files"}
    /\ {MaxSessions, MaxTrouble} \subseteq Nat

VARIABLES
    \* renderer
    stored,               \* localStorage's multica_token
    user,                 \* useAuthStore's user
    awaiting,             \* users whose getMe is under way, by who asked: init, link
    \* main process
    currentState, cli, operationInProgress,
    calls,                \* functions that are suspended at an await
    polls,                \* answers of /health on their way: running, absent
    \* the machine
    config,               \* the PAT in the profile's config.json
    sidecar,              \* .desktop-user-id
    daemon,               \* its process: down, spawned, loading (its token is read) or running
    \* history
    raced,                \* what has come on top of what: commands, credentials, files
    \* bounds
    sessions, clicks, faults

vars == <<stored, user, awaiting, currentState, cli, operationInProgress, calls, polls,
          config, sidecar, daemon, raced, sessions, clicks, faults>>
renderer == <<stored, user, awaiting>>
disk     == <<config, sidecar>>
bounds   == <<sessions, clicks, faults>>

\* A call: what it was made for, how far it is, the renderer's token and user,
\* the batch it is of, the PAT read or to write, and whether the user changed.
Call(for, pc, token, id, batch) ==
    [for |-> for, pc |-> pc, token |-> token, id |-> id, batch |-> batch,
     pat |-> None, userChanged |-> FALSE]

\* A batch of which no call is left. A step that needs one waits until there is
\* one, which bounds the batches under way at a time.
Free  == {b \in Batch : \A c \in calls : c.batch # b}
Fresh == CHOOSE b \in Free : TRUE
First == CHOOSE b \in Batch : TRUE

Becomes(c, d) == calls' = (calls \ {c}) \cup {d}
At(c, pc)     == [c EXCEPT !.pc = pc]
Ends(c)       == calls' = calls \ {c}

MayFail == clicks + faults < MaxTrouble

IsUp   == daemon.phase = "running"
health == IF IsUp THEN "running" ELSE "absent"

----------------------------------------------------------------------------
\* Calls that the renderer makes.

\* The effect of AppContent on user: nothing without a token.
loginCalls(token, id, batch) ==
    IF token = None THEN {} ELSE {Call("login", "sync", token, id, batch)}
onAuthTokenCalls(id, batch) == {Call("link", "sync", id, id, batch)}
handleDaemonLogout(batch)   == {Call("logout", "clear", None, None, batch)}

NotAwaiting == [init |-> None, link |-> None]

Init ==
    /\ stored = None /\ user = None /\ awaiting = NotAwaiting
    /\ currentState = "installing_cli" /\ cli = "resolving" /\ operationInProgress = FALSE
    /\ polls = {}
    /\ config = None /\ sidecar = None
    /\ daemon = [phase |-> "down", token |-> None]
    /\ raced = {} /\ sessions = 0 /\ clicks = 0 /\ faults = 0
    /\ calls = handleDaemonLogout(First)

----------------------------------------------------------------------------
\* The renderer.

Settled == calls = {} /\ awaiting = NotAwaiting /\ daemon.phase \in {"down", "running"}

\* A call that has yet to read or write a file with credentials.
Touches(c) == c.pc \in {"sync", "readUserId", "mint", "writeConfig", "writeUserId",
                        "clear", "deleteToken", "removeUserId"}

\* What a session that begins or ends now does not wait for.
Unfinished ==
    (IF Settled THEN {} ELSE {"commands"}) \cup
    (IF awaiting # NotAwaiting \/ \E c \in calls : Touches(c) THEN {"credentials"} ELSE {})

Race(kinds) ==
    /\ kinds \subseteq Races
    /\ raced' = raced \cup kinds

\* verifyCode or loginWithGoogle is answered, on the login page.
Login(u) ==
    /\ Race(Unfinished) /\ sessions < MaxSessions /\ Free # {}
    /\ user = None /\ awaiting.init = None
    /\ sessions' = sessions + 1
    /\ stored' = u /\ user' = u
    /\ calls' = calls \cup loginCalls(u, u, Fresh)
    /\ UNCHANGED <<awaiting, currentState, cli, operationInProgress, polls, disk, daemon,
                   clicks, faults>>

\* A deep link brings a token; loginWithToken stores it before it asks for
\* the user.
loginWithToken(u) ==
    /\ Race(Unfinished) /\ sessions < MaxSessions
    /\ awaiting.link = None
    /\ sessions' = sessions + 1
    /\ stored' = u
    /\ awaiting' = [awaiting EXCEPT !.link = u]
    /\ UNCHANGED <<user, currentState, cli, operationInProgress, calls, polls, disk, daemon,
                   clicks, faults>>

\* getMe is answered: the effect and the link's handler both sync the token.
LinkAnswered ==
    LET u == awaiting.link IN
    /\ u # None /\ Free # {}
    /\ user' = u
    /\ awaiting' = [awaiting EXCEPT !.link = None]
    /\ calls' = calls \cup loginCalls(stored, u, Fresh) \cup onAuthTokenCalls(u, Fresh)
    /\ UNCHANGED <<stored, currentState, cli, operationInProgress, polls, disk, daemon, raced,
                   bounds>>

\* AuthInitializer, for the token that was stored when the application began.
AuthInitialized ==
    LET u == awaiting.init IN
    /\ u # None /\ Free # {}
    /\ user' = u
    /\ awaiting' = [awaiting EXCEPT !.init = None]
    /\ calls' = calls \cup loginCalls(stored, u, Fresh)
    /\ UNCHANGED <<stored, currentState, cli, operationInProgress, polls, disk, daemon, raced,
                   bounds>>

\* A 401 clears the stored token; another error, twice, does not.
AuthRefused(asker) ==
    /\ awaiting[asker] # None /\ Free # {}
    /\ MayFail
    /\ faults' = faults + 1
    /\ stored' \in {stored, None}
    /\ awaiting' = [awaiting EXCEPT ![asker] = None]
    /\ IF asker = "init" THEN user' = None /\ calls' = calls \cup handleDaemonLogout(Fresh)
       ELSE UNCHANGED <<user, calls>>
    /\ UNCHANGED <<currentState, cli, operationInProgress, polls, disk, daemon, raced,
                   sessions, clicks>>

logout ==
    /\ Race(Unfinished) /\ Free # {}
    /\ user # None
    /\ stored' = None /\ user' = None
    /\ calls' = calls \cup handleDaemonLogout(Fresh)
    /\ UNCHANGED <<awaiting, currentState, cli, operationInProgress, polls, disk, daemon, bounds>>

\* The buttons of the daemon's panel: withGuard refuses a second operation.
Click(button) ==
    /\ user # None /\ MayFail /\ Free # {}
    /\ currentState \in IF button = "start" THEN {"stopped", "cli_not_found"} ELSE {"running"}
    /\ clicks' = clicks + 1
    /\ ~operationInProgress
    /\ operationInProgress' = TRUE
    /\ calls' = calls \cup {Call(button, IF button = "start" THEN "start" ELSE "stop", None, None, Fresh)}
    /\ UNCHANGED <<renderer, currentState, cli, polls, disk, daemon, raced, sessions, faults>>

----------------------------------------------------------------------------
\* syncToken and clearToken.

\* Reads config.json; the sidecar is read next.
syncToken(c) ==
    /\ c.pc = "sync"
    /\ Becomes(c, [c EXCEPT !.pc = "readUserId", !.pat = config])
    /\ UNCHANGED <<currentState, operationInProgress, polls, disk, daemon, faults>>

\* Reads the sidecar and chooses: a token that is a PAT itself, or the cached
\* PAT of the same user, or a fresh one. config.json may have changed since it
\* was read.
choosePat(c) ==
    LET changed == sidecar \notin {None, c.id}
        reuses  == sidecar = c.id /\ c.pat # None
        Writes(pat) == [c EXCEPT !.pc = "writeConfig", !.pat = pat, !.userChanged = changed]
    IN  /\ c.pc = "readUserId"
        /\ Race(IF c.pat = config THEN {} ELSE {"files"})
        /\ Becomes(c, IF c.token \in PatUser THEN Writes(c.token)
                      ELSE IF reuses THEN Writes(c.pat)
                      ELSE [c EXCEPT !.pc = "mint", !.pat = None, !.userChanged = changed])
        /\ UNCHANGED <<currentState, operationInProgress, polls, disk, daemon, faults>>

mintPat(c) ==
    /\ c.pc = "mint"
    /\ \/ Becomes(c, [c EXCEPT !.pc = "writeConfig", !.pat = c.token]) /\ UNCHANGED faults
       \/ MayFail /\ faults' = faults + 1 /\ Ends(c)
    /\ UNCHANGED <<currentState, operationInProgress, polls, disk, daemon>>

WriteCredentials_FaultSidecarFirst(c) ==
    /\ \/ c.pc = "writeConfig" /\ sidecar' = c.id /\ Becomes(c, At(c, "writeUserId")) /\ UNCHANGED config
       \/ c.pc = "writeUserId" /\ config' = c.pat /\ Becomes(c, At(c, "rotate")) /\ UNCHANGED sidecar
    /\ UNCHANGED <<currentState, operationInProgress, polls, daemon, faults>>

\* writeProfileConfig, then writeProfileUserId.
WriteCredentials(c) ==
    /\ \/ c.pc = "writeConfig" /\ config' = c.pat /\ Becomes(c, At(c, "writeUserId")) /\ UNCHANGED sidecar
       \/ c.pc = "writeUserId" /\ sidecar' = c.id /\ Becomes(c, At(c, "rotate")) /\ UNCHANGED config
    /\ UNCHANGED <<currentState, operationInProgress, polls, daemon, faults>>

\* On login, autoStart follows.
AfterSync(c) == IF c.for = "login" THEN {At(c, "autoStart")} ELSE {}

Restarting(c) == IF c.for = "login" THEN "restart after login" ELSE "restart after link"

RestartOnUserSwitch_FaultForgotten(c) ==
    /\ c.pc = "rotate"
    /\ calls' = (calls \ {c}) \cup AfterSync(c)
    /\ UNCHANGED <<currentState, operationInProgress, polls, disk, daemon, faults>>

\* A running daemon is restarted if the user has changed; nobody waits for it.
RestartOnUserSwitch(c) ==
    /\ c.pc = "rotate"
    /\ calls' = (calls \ {c}) \cup AfterSync(c)
                    \cup (IF c.userChanged /\ IsUp THEN {[At(c, "stop") EXCEPT !.for = Restarting(c)]}
                          ELSE {})
    /\ UNCHANGED <<currentState, operationInProgress, polls, disk, daemon, faults>>

clearToken(c) ==
    /\ \/ c.pc = "clear" /\ Becomes(c, At(c, IF config # None THEN "deleteToken" ELSE "removeUserId"))
                         /\ UNCHANGED <<disk, operationInProgress>>
       \/ c.pc = "deleteToken" /\ config' = None /\ Becomes(c, At(c, "removeUserId"))
                               /\ UNCHANGED <<sidecar, operationInProgress>>
       \/ c.pc = "removeUserId" /\ sidecar' = None /\ Becomes(c, At(c, "guardedStop"))
                                /\ UNCHANGED <<config, operationInProgress>>
       \/ /\ c.pc = "guardedStop"
          /\ operationInProgress' = TRUE
          /\ IF operationInProgress THEN Ends(c) ELSE Becomes(c, At(c, "stop"))
          /\ UNCHANGED disk
    /\ UNCHANGED <<currentState, polls, daemon, faults>>

----------------------------------------------------------------------------
\* startDaemon, stopDaemon and restartDaemon.

Guarded(c) == c.for \in {"start", "stop", "restart", "logout"}

Done_FaultGuardKept(c) ==
    /\ Ends(c)
    /\ UNCHANGED operationInProgress

\* The call is over: withGuard's finally.
Done(c) ==
    /\ Ends(c)
    /\ operationInProgress' = (operationInProgress /\ ~Guarded(c))

autoStart(c) ==
    /\ c.pc = "autoStart" /\ cli # "resolving"
    /\ IF cli = "missing" \/ IsUp THEN Ends(c) ELSE Becomes(c, At(c, "start"))
    /\ UNCHANGED <<currentState, operationInProgress, polls, disk, daemon, faults>>

startDaemon(c) ==
    /\ c.pc = "start" /\ cli # "resolving"
    /\ IF cli = "missing" THEN Done(c) /\ UNCHANGED <<currentState, polls>>
       ELSE IF IsUp THEN Done(c) /\ polls' = polls \cup {health} /\ UNCHANGED currentState
       ELSE /\ currentState' = "starting"
            /\ Becomes(c, At(c, "execStart"))
            /\ UNCHANGED <<operationInProgress, polls>>
    /\ UNCHANGED <<disk, daemon, faults>>

\* multica daemon start: refuses while a daemon is running, and spawns one,
\* which ends at once if another holds the port.
execStart(c) ==
    /\ c.pc = "execStart"
    /\ IF IsUp
       THEN Done(c) /\ currentState' = "stopped" /\ UNCHANGED daemon
       ELSE /\ Becomes(c, At(c, "started"))
            /\ daemon' = IF daemon.phase = "down" THEN [phase |-> "spawned", token |-> None] ELSE daemon
            /\ UNCHANGED <<operationInProgress, currentState>>
    /\ UNCHANGED <<polls, disk, faults>>

\* The command waits for the daemon, but not for long, and may fail.
Started(c) ==
    /\ c.pc = "started"
    /\ Done(c)
    /\ \/ polls' = polls \cup {health} /\ UNCHANGED <<currentState, faults>>
       \/ /\ MayFail
          /\ faults' = faults + 1
          /\ currentState' = "stopped"
          /\ UNCHANGED polls
    /\ UNCHANGED <<disk, daemon>>

stopDaemon(c) ==
    /\ c.pc = "stop" /\ cli # "resolving"
    /\ IF cli = "missing" THEN Done(c) /\ UNCHANGED currentState
       ELSE /\ currentState' = "stopping"
            /\ Becomes(c, At(c, "execStop"))
            /\ UNCHANGED operationInProgress
    /\ UNCHANGED <<polls, disk, daemon, faults>>

\* multica daemon stop: a daemon that is not running yet is not stopped.
execStop(c) ==
    /\ c.pc = "execStop"
    /\ \/ /\ daemon' = IF IsUp THEN [phase |-> "down", token |-> None] ELSE daemon
          /\ Becomes(c, At(c, "stopped"))
          /\ UNCHANGED faults
       \/ /\ MayFail
          /\ faults' = faults + 1
          /\ Becomes(c, At(c, "notStopped"))
          /\ UNCHANGED daemon
    /\ UNCHANGED <<currentState, operationInProgress, polls, disk>>

Restarts(c) == c.for \notin {"stop", "logout"}

\* The command's callback; a restart goes on if it has succeeded.
Stopped_FaultNoStart(c) ==
    /\ c.pc \in {"stopped", "notStopped"}
    /\ currentState' = "stopped"
    /\ Done(c)
    /\ UNCHANGED <<polls, disk, daemon, faults>>

Stopped(c) ==
    /\ c.pc \in {"stopped", "notStopped"}
    /\ currentState' = "stopped"
    /\ IF c.pc = "stopped" /\ Restarts(c)
       THEN Becomes(c, At(c, "start")) /\ UNCHANGED operationInProgress
       ELSE Done(c)
    /\ UNCHANGED <<polls, disk, daemon, faults>>

Continue(c) ==
    /\ \/ choosePat(c)
       \/ /\ UNCHANGED raced
          /\ \/ syncToken(c) \/ mintPat(c) \/ WriteCredentials(c) \/ RestartOnUserSwitch(c)
             \/ clearToken(c) \/ autoStart(c) \/ startDaemon(c) \/ execStart(c) \/ Started(c)
             \/ stopDaemon(c) \/ execStop(c) \/ Stopped(c)
    /\ UNCHANGED <<renderer, cli, sessions, clicks>>

----------------------------------------------------------------------------
\* Bootstrapping and polling.

bootstrapCli ==
    /\ cli = "resolving"
    /\ \/ cli' = "found" /\ currentState' = "stopped" /\ UNCHANGED faults
       \/ /\ MayFail
          /\ faults' = faults + 1
          /\ cli' = "missing" /\ currentState' = "cli_not_found"
    /\ UNCHANGED <<renderer, operationInProgress, calls, polls, disk, daemon, raced, sessions,
                   clicks>>

retryInstall ==
    /\ cli = "missing"
    /\ cli' = "resolving"
    /\ UNCHANGED <<renderer, currentState, operationInProgress, calls, polls, disk, daemon, raced, bounds>>

\* The interval, once the CLI is there, and set-target-api-url.
pollOnce ==
    /\ currentState \notin {"installing_cli", "cli_not_found"}
    /\ polls' = polls \cup {health}
    /\ UNCHANGED <<renderer, currentState, cli, operationInProgress, calls, disk, daemon, raced, bounds>>

fetchHealth_FaultKeepsState(answer) == IF answer = "running" THEN "running" ELSE currentState

\* What an answer makes of the state: a start is not given up.
fetchHealth(answer) ==
    CASE answer = "running" -> "running"
      [] answer = "absent"  -> IF currentState = "starting" THEN "starting" ELSE "stopped"

\* Answers may come in any order.
PollReturns ==
    \E answer \in polls :
        /\ polls' = polls \ {answer}
        /\ currentState' = fetchHealth(answer)
        /\ UNCHANGED <<renderer, cli, operationInProgress, calls, disk, daemon, raced, bounds>>

----------------------------------------------------------------------------
\* The daemon's process and the application's.

\* It binds the port, reads its token and ends without one.
DaemonLoads ==
    /\ daemon.phase = "spawned"
    /\ daemon' = IF config = None THEN [phase |-> "down", token |-> None]
                 ELSE [phase |-> "loading", token |-> config]
    /\ UNCHANGED <<renderer, currentState, cli, operationInProgress, calls, polls, disk, raced, bounds>>

DaemonServes ==
    /\ daemon.phase = "loading"
    /\ daemon' = [daemon EXCEPT !.phase = "running"]
    /\ UNCHANGED <<renderer, currentState, cli, operationInProgress, calls, polls, disk, raced, bounds>>

DaemonDies ==
    /\ daemon.phase # "down"
    /\ MayFail
    /\ faults' = faults + 1
    /\ daemon' = [phase |-> "down", token |-> None]
    /\ UNCHANGED <<renderer, currentState, cli, operationInProgress, calls, polls, disk,
                   raced, sessions, clicks>>

\* The application exits and is opened again; the daemon goes on.
Relaunch ==
    /\ MayFail
    /\ faults' = faults + 1
    /\ user' = None
    /\ awaiting' = [NotAwaiting EXCEPT !.init = stored]
    /\ currentState' = "installing_cli" /\ cli' = "resolving" /\ operationInProgress' = FALSE
    /\ polls' = {}
    /\ calls' = IF stored = None THEN handleDaemonLogout(First) ELSE {}
    /\ UNCHANGED <<stored, disk, daemon, raced, sessions, clicks>>

----------------------------------------------------------------------------

Next ==
    \/ \E u \in User : Login(u) \/ loginWithToken(u)
    \/ LinkAnswered \/ AuthInitialized \/ logout
    \/ \E asker \in {"init", "link"} : AuthRefused(asker)
    \/ \E button \in {"start", "stop", "restart"} : Click(button)
    \/ \E c \in calls : Continue(c)
    \/ bootstrapCli \/ retryInstall \/ pollOnce \/ PollReturns
    \/ DaemonLoads \/ DaemonServes \/ DaemonDies \/ Relaunch

Spec == Init /\ [][Next]_vars

\* Promises settle, commands end, the interval ticks and the daemon makes
\* progress. Users do nothing that they must do.
Fairness ==
    /\ WF_vars(\E c \in calls : Continue(c))
    /\ WF_vars(LinkAnswered) /\ WF_vars(AuthInitialized) /\ WF_vars(bootstrapCli)
    /\ WF_vars(pollOnce) /\ WF_vars(PollReturns)
    /\ WF_vars(DaemonLoads) /\ WF_vars(DaemonServes)

FairSpec == Spec /\ Fairness

----------------------------------------------------------------------------
\* Properties

\* Type invariant of the application, the files and the daemon's process, in
\* which withGuard's flag is not left set without a call that clears it.
TypeOK ==
    /\ {stored, user, config, sidecar, daemon.token, awaiting.init, awaiting.link}
           \subseteq User \cup {None}
    /\ daemon.phase \in {"down", "spawned", "loading", "running"}
    /\ currentState \in {"installing_cli", "cli_not_found", "stopped", "starting", "running", "stopping"}
    /\ cli \in {"resolving", "found", "missing"}
    /\ polls \subseteq {"running", "absent"}
    /\ raced \subseteq {"commands", "credentials", "files"}
    /\ operationInProgress => \E c \in calls : Guarded(c)
    /\ \A c, d \in calls : <<c.for, c.batch>> = <<d.for, d.batch>> => c = d

\* The PAT that a login writes belongs to the user who logs in, whether it is
\* minted or was cached: the cache is used only for the user of the sidecar,
\* and whatever the application was doing when it was quit, the sidecar never
\* names the user of another token for long enough to matter (syncToken,
\* clearToken). Commands of the daemon may still be under way when a session
\* begins or ends, but no read or write of the credentials, and a sync finds
\* both files as it or the same user's other sync left them. It takes a second
\* failure to break this: the mint that is refused after a quit between the two
\* writes.
WrittenPatIsOwn ==
    faults <= 1 /\ raced \subseteq {"commands"} =>
        \A c \in calls : c.pc = "writeConfig" => c.pat = c.id

\* When everything has been answered, nothing has failed, nobody has restarted
\* it in the meantime and each session began and ended when the one before had
\* settled, a daemon that runs does so with the token of the user who is logged
\* in, and none runs when nobody is: a login over another user's session
\* restarts it, although both the effect and the link's handler sync the token
\* and none of their restarts and starts is guarded (syncToken,
\* handleDaemonLogout).
CredentialsFollowUser ==
    Settled /\ faults = 0 /\ clicks = 0 /\ raced = {} /\ IsUp => daemon.token = user

\* Under the same conditions a daemon runs exactly if somebody is logged in: of
\* the commands that one change of session sets off at once (a deep link over
\* another user's session syncs twice, each sync may restart the daemon, and
\* the auto-start of the login starts one, all unguarded), none takes down for
\* good what another has brought up, and a logout leaves nothing running
\* (autoStart, restartDaemon, handleDaemonLogout). Of a logout and a login that
\* overlap this is not so.
DaemonFollowsSession ==
    Settled /\ faults = 0 /\ clicks = 0 /\ raced = {} /\ cli = "found" =>
        (IsUp <=> user # None)

\* The status that the windows show comes to agree with the daemon, whatever
\* answers of /health come late and whichever commands are under way
\* (fetchHealth, pollOnce).
StatusFollowsDaemon ==
    /\ IsUp ~> (currentState = "running" \/ ~IsUp \/ cli # "found")
    /\ daemon.phase = "down" ~> (currentState # "running" \/ daemon.phase # "down")

\* On logout, clear any cached PAT and stop the daemon so that a subsequent
\* login as a different user never inherits the previous user's credentials.
NeverInherits ==
    Settled /\ faults = 0 /\ user # None /\ IsUp => daemon.token = user
=============================================================================
