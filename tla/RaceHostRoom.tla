----------------------------- MODULE RaceHostRoom -----------------------------
(***************************************************************************)
(* The race host keeps the promise the lobby relies on.                    *)
(***************************************************************************)
EXTENDS RaceHost

\* What the lobby can see of a race through RaceHost's public functions.
SeenRoom ==
  [drivers |-> Drivers(mConnections), watchers |-> Watchers(mConnections),
   seats |-> mPlayers, started |-> mStarted, finished |-> mFinished]

Abstract == INSTANCE RoomSpec WITH room <- SeenRoom

\* Seen from the lobby, whatever the host does is one step of a room: never more
\* drivers than seats, a start only of a full race or by a player, a return in
\* place of at most one driver, no watcher before the start, and time alone
\* sends nobody away once the race has started (Hello, HostStart, Resume,
\* Spectate, Disconnect and Advance).  It is kept up to a HostStart that fails:
\* after it the old tokens no longer fit the seats (see StartedIsLoaded).
ImplementsRoom ==
  Abstract!Init /\ [][mLoaded => [Abstract!Next]_SeenRoom]_vars
=============================================================================
