---------------------------- MODULE ConsoleSessions ----------------------------
(***************************************************************************)
(* Web consoles (services/ssh_console.py, routers/server_console.py): a    *)
(* browser mints a single-use ticket, a WebSocket consumes it, takes one   *)
(* of the user's slots and opens a PTY on the host.  When the browser      *)
(* drops, the PTY is parked: a watcher drains it until it expires, and     *)
(* another WebSocket may claim it with the resume token.  Logging out and  *)
(* any other change of User.session_version ends the user's shells.        *)
(*                                                                         *)
(* All of this runs on one event loop, so a step below is the code between *)
(* two awaits.  The resume token of a shell is the shell itself.           *)
(***************************************************************************)
EXTENDS Integers, FiniteSets

CONSTANTS
  Ws,          \* WebSocket handlers that may run at once
  Shell,       \* shells that may be opened, each with its ticket and resume token
  User,
  ShellOwner,  \* the user who asks for each shell
  MaxPerUser,
  MaxGlobal,
  MaxRevokes,  \* bound: changes of session_version
  MaxWatchers, \* bound: hold watchers of one shell that run at once
  NoShell

ASSUME ShellAssumption ==
  NoShell \notin Shell /\ IsFiniteSet(Shell) /\ ShellOwner \in [Shell -> User]
ASSUME SlotAssumption  ==
  MaxPerUser \in Nat /\ MaxGlobal \in Nat /\ MaxRevokes \in Nat /\ MaxWatchers \in Nat

VARIABLES
  ticket,      \* the shell's ticket: none, minted or used
  sv,          \* User.session_version
  shellSv,     \* session_version the shell's ticket was minted with
  ws,          \* where each WebSocket handler is
  wsShell,     \* the shell whose channel it has
  wsGone,      \* its browser has dropped the connection
  parked,      \* _held_sessions
  watchers,    \* _console_hold_watch tasks of each shell
  channel,     \* the shell's SSH channel
  record,      \* the shell's ssh_console_open / ssh_console_close audit rows
  liveByUser,  \* _live_by_user
  liveGlobal,  \* _live_global
  wasResumed   \* history: a WebSocket claimed the shell

consoleVars == <<ticket, sv, shellSv, ws, wsShell, wsGone, parked, watchers, channel,
                 record, liveByUser, liveGlobal, wasResumed>>

ConsoleTypeOK ==
  /\ ticket \in [Shell -> {"none", "minted", "used"}]
  /\ sv \in [User -> 0 .. MaxRevokes]
  /\ shellSv \in [Shell -> 0 .. MaxRevokes]
  /\ ws \in [Ws -> {"idle", "opening", "open", "resuming", "resumed"}]
  /\ wsShell \in [Ws -> Shell \union {NoShell}]
  /\ wsGone \in [Ws -> BOOLEAN]
  /\ parked \in SUBSET Shell
  /\ watchers \in [Shell -> 0 .. MaxWatchers]
  /\ channel \in [Shell -> {"none", "up", "exited", "closed"}]
  /\ record \in [Shell -> {"none", "open", "closed"}]
  /\ liveByUser \in [User -> Int]
  /\ liveGlobal \in Int
  /\ wasResumed \in [Shell -> BOOLEAN]

ConsoleInit ==
  /\ ticket = [s \in Shell |-> "none"]
  /\ sv = [u \in User |-> 0]
  /\ shellSv = [s \in Shell |-> 0]
  /\ ws = [w \in Ws |-> "idle"]
  /\ wsShell = [w \in Ws |-> NoShell]
  /\ wsGone = [w \in Ws |-> FALSE]
  /\ parked = {}
  /\ watchers = [s \in Shell |-> 0]
  /\ channel = [s \in Shell |-> "none"]
  /\ record = [s \in Shell |-> "none"]
  /\ liveByUser = [u \in User |-> 0]
  /\ liveGlobal = 0
  /\ wasResumed = [s \in Shell |-> FALSE]
------------------------------------------------------------------------------
Attached(w) == ws[w] \in {"open", "resumed"}
Revoked(s)  == shellSv[s] # sv[ShellOwner[s]]
SlotFree(u) == liveGlobal < MaxGlobal /\ liveByUser[u] < MaxPerUser

AcquireSlot(u) ==
  /\ liveByUser' = [liveByUser EXCEPT ![u] = @ + 1]
  /\ liveGlobal' = liveGlobal + 1

\* release_slot for each user of the set: it never counts below zero.
ReleaseSlots(S) ==
  LET Freed(u) == Cardinality({s \in S : ShellOwner[s] = u})
  IN  /\ liveByUser' = [u \in User |-> IF liveByUser[u] < Freed(u) THEN 0
                                        ELSE liveByUser[u] - Freed(u)]
      /\ liveGlobal' = IF liveGlobal < Cardinality(S) THEN 0 ELSE liveGlobal - Cardinality(S)

\* Mutant: the shell is torn down and its slot is not given back.
DestroyKeepingSlot(S) ==
  /\ parked' = parked \ S
  /\ channel' = [s \in Shell |-> IF s \in S THEN "closed" ELSE channel[s]]
  /\ record' = [s \in Shell |-> IF s \in S /\ record[s] = "open" THEN "closed" ELSE record[s]]
  /\ UNCHANGED <<liveByUser, liveGlobal>>

\* destroy_held of the parked shells S: an unfinished recorder is finalized and
\* writes the close row, the channel is closed and the slot given back.
Destroy(S) ==
  /\ parked' = parked \ S
  /\ channel' = [s \in Shell |-> IF s \in S THEN "closed" ELSE channel[s]]
  /\ record' = [s \in Shell |-> IF s \in S /\ record[s] = "open" THEN "closed" ELSE record[s]]
  /\ ReleaseSlots(S)

\* The handler's finally without parking; closes: whether the close row is written.
CloseShell(w, closes) ==
  LET s == wsShell[w]
  IN  /\ ws' = [ws EXCEPT ![w] = "idle"]
      /\ wsShell' = [wsShell EXCEPT ![w] = NoShell]
      /\ wsGone' = [wsGone EXCEPT ![w] = FALSE]
      /\ channel' = [channel EXCEPT ![s] = "closed"]
      /\ record' = IF closes THEN [record EXCEPT ![s] = "closed"] ELSE record
      /\ ReleaseSlots({s})
      /\ UNCHANGED <<ticket, sv, shellSv, parked, watchers, wasResumed>>
------------------------------------------------------------------------------
\* mint_console_ticket: a shell is asked for while the user has a slot left.
MintTicket(s) ==
  /\ ticket[s] = "none"
  /\ SlotFree(ShellOwner[s])
  /\ ticket' = [ticket EXCEPT ![s] = "minted"]
  /\ shellSv' = [shellSv EXCEPT ![s] = sv[ShellOwner[s]]]
  /\ UNCHANGED <<sv, ws, wsShell, wsGone, parked, watchers, channel, record,
                 liveByUser, liveGlobal, wasResumed>>

\* consume_ticket and try_acquire_slot: a ticket of an older login is refused
\* and left; one that finds no slot is used up.
OpenWithTicket(w, s) ==
  /\ ws[w] = "idle"
  /\ ticket[s] = "minted"
  /\ ~Revoked(s)
  /\ ticket' = [ticket EXCEPT ![s] = "used"]
  /\ \/ /\ SlotFree(ShellOwner[s])
        /\ AcquireSlot(ShellOwner[s])
        /\ ws' = [ws EXCEPT ![w] = "opening"]
        /\ wsShell' = [wsShell EXCEPT ![w] = s]
        /\ record' = [record EXCEPT ![s] = "open"]
     \/ /\ ~SlotFree(ShellOwner[s])
        /\ UNCHANGED <<liveByUser, liveGlobal, ws, wsShell, record>>
  /\ UNCHANGED <<sv, shellSv, wsGone, parked, watchers, channel, wasResumed>>

\* open_session_channel returned and the greeting was sent.
ShellOpens(w) ==
  /\ ws[w] = "opening"
  /\ ws' = [ws EXCEPT ![w] = "open"]
  /\ channel' = [channel EXCEPT ![wsShell[w]] = "up"]
  /\ UNCHANGED <<ticket, sv, shellSv, wsShell, wsGone, parked, watchers, record,
                 liveByUser, liveGlobal, wasResumed>>

\* SSH fails, the identity is gone, a required recorder does not start, or the
\* greeting cannot be sent: nothing is parked yet.
OpenFails(w) ==
  /\ ws[w] = "opening"
  /\ CloseShell(w, TRUE)

\* Mutant: a claim looks the shell up and does not take it out.
PeekResume(w, s) ==
  /\ ws[w] = "idle"
  /\ s \in parked
  /\ ~Revoked(s)
  /\ ws' = [ws EXCEPT ![w] = "resuming"]
  /\ wsShell' = [wsShell EXCEPT ![w] = s]
  /\ wasResumed' = [wasResumed EXCEPT ![s] = TRUE]
  /\ UNCHANGED <<ticket, sv, shellSv, wsGone, parked, watchers, channel, record,
                 liveByUser, liveGlobal>>

\* claim_resume: the parked shell is taken out; one of an older login, or past
\* a limit (any time, for the clocks are left out), is destroyed.
ClaimResume(w, s) ==
  /\ ws[w] = "idle"
  /\ s \in parked
  /\ \/ /\ ~Revoked(s)
        /\ parked' = parked \ {s}
        /\ ws' = [ws EXCEPT ![w] = "resuming"]
        /\ wsShell' = [wsShell EXCEPT ![w] = s]
        /\ wasResumed' = [wasResumed EXCEPT ![s] = TRUE]
        /\ UNCHANGED <<channel, record, liveByUser, liveGlobal>>
     \/ /\ Destroy({s})
        /\ UNCHANGED <<ws, wsShell, wasResumed>>
  /\ UNCHANGED <<ticket, sv, shellSv, wsGone, watchers>>

\* The buffered output and the greeting were sent.
ResumeAttaches(w) ==
  /\ ws[w] = "resuming"
  /\ ws' = [ws EXCEPT ![w] = "resumed"]
  /\ UNCHANGED <<ticket, sv, shellSv, wsShell, wsGone, parked, watchers, channel, record, liveByUser, liveGlobal, wasResumed>>

\* The browser is gone again before the pump runs: park_on_exit is not set yet.
ResumeFails(w) ==
  /\ ws[w] = "resuming"
  /\ wsGone[w]
  /\ CloseShell(w, FALSE)

BrowserDrops(w) ==
  /\ ws[w] # "idle"
  /\ ~wsGone[w]
  /\ wsGone' = [wsGone EXCEPT ![w] = TRUE]
  /\ UNCHANGED <<ticket, sv, shellSv, ws, wsShell, parked, watchers, channel, record, liveByUser, liveGlobal, wasResumed>>

\* Mutant: no watcher is started for the parked shell.
ParkUnwatched(w) ==
  LET s == wsShell[w]
  IN  /\ Attached(w)
      /\ wsGone[w]
      /\ parked' = parked \union {s}
      /\ ws' = [ws EXCEPT ![w] = "idle"]
      /\ wsShell' = [wsShell EXCEPT ![w] = NoShell]
      /\ wsGone' = [wsGone EXCEPT ![w] = FALSE]
      /\ UNCHANGED <<ticket, sv, shellSv, watchers, channel, record, liveByUser,
                     liveGlobal, wasResumed>>

\* The handler's finally when the browser dropped: the shell keeps its slot.
\* An exited channel is parked only while output is left to read.
Park(w) ==
  LET s == wsShell[w]
  IN  /\ Attached(w)
      /\ wsGone[w]
      /\ channel[s] \in {"up", "exited"}
      /\ watchers[s] < MaxWatchers
      /\ parked' = parked \union {s}
      /\ watchers' = [watchers EXCEPT ![s] = @ + 1]
      /\ ws' = [ws EXCEPT ![w] = "idle"]
      /\ wsShell' = [wsShell EXCEPT ![w] = NoShell]
      /\ wsGone' = [wsGone EXCEPT ![w] = FALSE]
      /\ UNCHANGED <<ticket, sv, shellSv, channel, record, liveByUser, liveGlobal,
                     wasResumed>>

\* Mutant: only a deliberate close writes the close row.
ShellEndsSilently(w) ==
  /\ Attached(w)
  /\ channel[wsShell[w]] = "exited" \/ Revoked(wsShell[w]) \/ ~wsGone[w]
  /\ \E intentional \in {FALSE, Revoked(wsShell[w])} : CloseShell(w, intentional)

\* pump_ssh_out or the receive loop ends the shell: it exited, its login is no
\* longer valid, or a limit passed (at any time).  Only
\* the pump marks a lost login as an intentional close; a resumed shell that
\* ends in any other way writes no close row.
ShellEnds(w) ==
  LET s == wsShell[w]
  IN  /\ Attached(w)
      /\ channel[s] = "exited" \/ Revoked(s) \/ ~wsGone[w]
      /\ \E intentional \in {FALSE, Revoked(s)} :
           CloseShell(w, ws[w] = "open" \/ intentional)

Bye(w) ==
  /\ Attached(w)
  /\ ~wsGone[w]
  /\ CloseShell(w, TRUE)

\* discard_console_session: the user closes the tab of a parked shell.
Discard(s) ==
  /\ s \in parked
  /\ Destroy({s})
  /\ UNCHANGED <<ticket, sv, shellSv, ws, wsShell, wsGone, watchers, wasResumed>>

\* logout: the session version is bumped and the user's parked shells destroyed.
Logout(u) ==
  /\ sv[u] < MaxRevokes
  /\ sv' = [sv EXCEPT ![u] = @ + 1]
  /\ Destroy({s \in parked : ShellOwner[s] = u})
  /\ UNCHANGED <<ticket, shellSv, ws, wsShell, wsGone, watchers, wasResumed>>

\* bump_session_version elsewhere (password, role, admin revoke): parked shells stay.
Revoke(u) ==
  /\ sv[u] < MaxRevokes
  /\ sv' = [sv EXCEPT ![u] = @ + 1]
  /\ UNCHANGED <<ticket, shellSv, ws, wsShell, wsGone, parked, watchers, channel, record, liveByUser, liveGlobal, wasResumed>>

\* A tick of _console_hold_watch: the shell has exited or a limit has passed.
WatchDestroys(s) ==
  /\ watchers[s] > 0
  /\ s \in parked
  /\ watchers' = [watchers EXCEPT ![s] = @ - 1]
  /\ Destroy({s})
  /\ UNCHANGED <<ticket, sv, shellSv, ws, wsShell, wsGone, wasResumed>>

\* A tick that finds the shell claimed or destroyed: the watcher ends.
WatchEnds(s) ==
  /\ watchers[s] > 0
  /\ s \notin parked
  /\ watchers' = [watchers EXCEPT ![s] = @ - 1]
  /\ UNCHANGED <<ticket, sv, shellSv, ws, wsShell, wsGone, parked, channel, record,
                 liveByUser, liveGlobal, wasResumed>>

ShellExits(s) ==
  /\ channel[s] = "up"
  /\ channel' = [channel EXCEPT ![s] = "exited"]
  /\ UNCHANGED <<ticket, sv, shellSv, ws, wsShell, wsGone, parked, watchers, record,
                 liveByUser, liveGlobal, wasResumed>>

ConsoleNext ==
  \/ \E w \in Ws :
       \/ ShellOpens(w) \/ OpenFails(w) \/ ResumeAttaches(w) \/ ResumeFails(w)
       \/ BrowserDrops(w) \/ Park(w) \/ ShellEnds(w) \/ Bye(w)
  \/ \E w \in Ws, s \in Shell : OpenWithTicket(w, s) \/ ClaimResume(w, s)
  \/ \E s \in Shell :
       \/ MintTicket(s) \/ Discard(s) \/ WatchDestroys(s) \/ WatchEnds(s)
       \/ ShellExits(s)
  \/ \E u \in User : Logout(u) \/ Revoke(u)

ConsoleSpec == ConsoleInit /\ [][ConsoleNext]_consoleVars

\* The event loop runs every handler and watcher, and time passes: a watcher
\* destroys what has exited or expired, and a handler ends a shell whose login is
\* gone.  Browsers need do nothing.
ConsoleFairness ==
  /\ \A w \in Ws :
       /\ WF_consoleVars(ShellOpens(w) \/ OpenFails(w))
       /\ WF_consoleVars(ResumeAttaches(w))
       /\ WF_consoleVars(Park(w) \/ (ShellEnds(w) /\ Revoked(wsShell[w])))
  /\ \A s \in Shell :
       /\ WF_consoleVars(WatchDestroys(s))
       /\ WF_consoleVars(WatchEnds(s))
------------------------------------------------------------------------------
\* The shells that take a slot.
Holding == parked \union {wsShell[w] : w \in {v \in Ws : ws[v] # "idle"}}

\* _live_by_user and _live_global count exactly the shells a WebSocket has or
\* that are parked, whatever order drops, claims, expiries and logouts come in:
\* no slot leaks, and no user has more shells than max_per_user.
SlotsCounted ==
  /\ \A u \in User :
       /\ liveByUser[u] = Cardinality({s \in Holding : ShellOwner[s] = u})
       /\ liveByUser[u] <= MaxPerUser
  /\ liveGlobal = Cardinality(Holding)
  /\ liveGlobal <= MaxGlobal

\* A PTY is in one place: with one WebSocket or parked, never two of these
\* (two tabs that resume with one token, a watcher that expires a claimed shell).
OneHolder ==
  /\ \A v, w \in Ws : ws[v] # "idle" /\ ws[w] # "idle" /\ wsShell[v] = wsShell[w] => v = w
  /\ \A w \in Ws : ws[w] # "idle" => wsShell[w] \notin parked
  /\ \A s \in parked : channel[s] \in {"up", "exited"}

\* A shell that is closed has its close row, unless a WebSocket had resumed it:
\* only then can it end without one.
ClosedIsAudited ==
  \A s \in Shell : channel[s] = "closed" /\ ~wasResumed[s] => record[s] = "closed"

\* After a logout, a password change or an admin's revoke, every shell of the
\* old login is closed in the end, attached or parked, whether or not its
\* browser is still there.
RevokedShellCloses ==
  \A s \in Shell : (channel[s] = "up" /\ Revoked(s)) ~> (channel[s] = "closed")
==============================================================================
