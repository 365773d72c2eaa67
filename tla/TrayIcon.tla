------------------------------ MODULE TrayIcon ------------------------------
(***************************************************************************)
(* The tray's count of connections.  Logins and the ends of sessions in the *)
(* tray's own process go through a broadcast channel of bounded length; the *)
(* tray drains it once a second and colours its icon by the count.  A       *)
(* channel that overflows loses its oldest events for this reader.          *)
(***************************************************************************)
EXTENDS Naturals, Sequences

CONSTANTS
    Channel,    \* length of the broadcast channel (32)
    MaxLogins   \* bound: logins of a behaviour

ASSUME ChannelAssumption == Channel \in Nat \ {0} /\ MaxLogins \in Nat

VARIABLES
    sessions,   \* sessions that are open
    logins,     \* logins so far
    events,     \* what the tray has not read: sequence of "Connected" and "Disconnected"
    lagged,     \* the channel has dropped events the tray has not been told of
    tray        \* [on, active, red]: subscribed; active_connections; the icon

\* History: the tray has missed an event.
VARIABLE missed

trayVars == <<sessions, logins, events, lagged, tray, missed>>

\* No session is open; the tray has subscribed already or is still starting.
TrayInit ==
    /\ sessions = 0 /\ logins \in {0, MaxLogins} /\ events = <<>>
    /\ lagged = FALSE /\ missed = FALSE
    /\ \E b \in BOOLEAN : tray = [on |-> b, active |-> 0, red |-> FALSE]

\* tx.send: the oldest event goes when the channel is full; without a subscriber it is lost.
Send(e) ==
    /\ events' = IF ~tray.on THEN <<>>
                 ELSE IF Len(events) = Channel THEN Append(Tail(events), e) ELSE Append(events, e)
    /\ lagged' = (lagged \/ (tray.on /\ Len(events) = Channel))
    /\ missed' = (missed \/ ~tray.on \/ Len(events) = Channel)

notify_connection ==
    /\ logins < MaxLogins
    /\ logins' = logins + 1 /\ sessions' = sessions + 1
    /\ Send("Connected") /\ UNCHANGED tray
\* The guard of a session is dropped at its end, whatever ended it.
notify_disconnect ==
    /\ sessions > 0
    /\ sessions' = sessions - 1
    /\ Send("Disconnected") /\ UNCHANGED <<logins, tray>>

\* win32_tray::run: the listeners are started before the tray subscribes.
subscribe ==
    /\ ~tray.on
    /\ tray' = [tray EXCEPT !.on = TRUE]
    /\ UNCHANGED <<sessions, logins, events, lagged, missed>>

Counted(n, e) == IF e = "Connected" THEN n + 1 ELSE IF n = 0 THEN 0 ELSE n - 1
\* All events in order: active[i] is the count after the first i of them.
Drained ==
    LET active[i \in 0 .. Len(events)] ==
            IF i = 0 THEN tray.active ELSE Counted(active[i - 1], events[i])
    IN  active[Len(events)]

\* WM_TIMER: try_recv until it fails.  After an overflow the first call fails, so that this
\* tick reads nothing; the icon changes when the count becomes or leaves zero.
Tick ==
    /\ tray.on
    /\ \/ lagged /\ lagged' = FALSE /\ UNCHANGED <<tray, events>>
       \/ /\ ~lagged /\ events # <<>>
          /\ tray' = [tray EXCEPT !.active = Drained,
                        !.red = IF (tray.active > 0) # (Drained > 0) THEN Drained > 0 ELSE @]
          /\ events' = <<>> /\ UNCHANGED lagged
    /\ UNCHANGED <<sessions, logins, missed>>

TrayNext == notify_connection \/ notify_disconnect \/ subscribe \/ Tick
TrayFairness == WF_trayVars(subscribe) /\ WF_trayVars(Tick)

-----------------------------------------------------------------------------
\* When the tray has read everything and missed nothing, it counts the open sessions and its
\* icon is red exactly if there are some; the events it has not read account for the rest.
IconTrue ==
    /\ ~missed => Drained = sessions
    /\ tray.red = (tray.active > 0)

\* The channel is always drained in the end.
TrayRest == tray.on /\ events = <<>> /\ ~lagged
=============================================================================
