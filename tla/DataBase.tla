------------------------------ MODULE DataBase ------------------------------
(***************************************************************************)
(* DataBaseMgr: the one connection to the database that all threads use.   *)
(* The thread that reads the database again connects before and            *)
(* disconnects after it; a statement that finds no connection makes one,   *)
(* outside the critical section that the other operations take.            *)
(***************************************************************************)
EXTENDS Naturals

CONSTANTS
    Thread,          \* threads that execute statements
    Reader,          \* ReadDBThread
    RECONNECT_NUM,   \* how often a logon is tried
    NoThread

VARIABLES
    up,              \* the database can be reached
    connected,       \* m_db.connected
    alive,           \* the database still knows the session
    m_bConnectDB,
    recent,          \* m_tConnectDB is less than a minute ago
    nReconnect,      \* m_nReconnect
    clock,           \* who is in m_clock
    at               \* how far the call of each thread has come

vars == <<up, connected, alive, m_bConnectDB, recent, nReconnect, clock, at>>

Goes(t, from, to) ==
    /\ at[t] = from
    /\ at' = [at EXCEPT ![t] = to]

\* What follows a statement: the reading of the database goes on while its
\* statements succeed, and ends at once, connected or not, when one fails.
Returned(t, ok) == IF t = Reader /\ ok THEN "reads" ELSE "idle"

(***************************************************************************)
(* otl_connect.                                                            *)
(***************************************************************************)
\* rlogon throws when it cannot log on, and when it is logged on.
CanLogon == up /\ ~ connected

Logon ==
    /\ connected' = (connected \/ up)
    /\ alive' = IF CanLogon THEN TRUE ELSE alive

Logoff ==
    /\ connected' = FALSE
    /\ alive' = FALSE

(***************************************************************************)
(* ConnectDB and DisconnectDB, in the critical section.                    *)
(***************************************************************************)
ConnectDB ==
    /\ clock = NoThread
    /\ Goes(Reader, "idle", "logged on")
    /\ clock' = Reader
    /\ Logon
    /\ UNCHANGED <<up, m_bConnectDB, recent, nReconnect>>

\* After an error p.code is set to 32031 where it should be compared with it,
\* so ConnectDB tells that there is a connection in either case.
ConnectDBReturns ==
    /\ Goes(Reader, "logged on", "reads")
    /\ m_bConnectDB' = TRUE
    /\ clock' = NoThread
    /\ UNCHANGED <<up, connected, alive, recent, nReconnect>>

\* The commit fails, and nothing changes, without a session.
DisconnectDB ==
    /\ clock = NoThread
    /\ Goes(Reader, "reads", "idle")
    /\ IF connected /\ alive
         THEN Logoff /\ m_bConnectDB' = FALSE /\ recent' = FALSE
         ELSE UNCHANGED <<connected, alive, m_bConnectDB, recent>>
    /\ UNCHANGED <<up, nReconnect, clock>>

(***************************************************************************)
(* ExecuteSQL, and ReConnectDB, which it calls before the critical section.*)
(***************************************************************************)
ExecuteSQL(t) ==
    /\ Goes(t, IF t = Reader THEN "reads" ELSE "idle",
               IF m_bConnectDB THEN "opens" ELSE "reconnects")
    /\ UNCHANGED <<up, connected, alive, m_bConnectDB, recent, nReconnect, clock>>

\* Within a minute of the last attempt nothing is tried.
ReConnectTooSoon(t) ==
    /\ recent
    /\ Goes(t, "reconnects", IF m_bConnectDB THEN "opens" ELSE Returned(t, FALSE))
    /\ UNCHANGED <<up, connected, alive, m_bConnectDB, recent, nReconnect, clock>>

ReConnectDB(t) ==
    /\ ~ recent
    /\ Goes(t, "reconnects", "logs on")
    /\ IF m_bConnectDB /\ connected THEN Logoff ELSE UNCHANGED <<connected, alive>>
    /\ m_bConnectDB' = FALSE
    /\ UNCHANGED <<up, recent, nReconnect, clock>>

ReConnectLogon(t) ==
    /\ Goes(t, "logs on",
            IF CanLogon \/ nReconnect + 1 >= RECONNECT_NUM THEN "stamps" ELSE "logs on")
    /\ nReconnect' = nReconnect + 1
    /\ Logon
    /\ m_bConnectDB' = CanLogon
    /\ UNCHANGED <<up, recent, clock>>

ReConnectReturns(t) ==
    /\ Goes(t, "stamps", IF m_bConnectDB THEN "opens" ELSE Returned(t, FALSE))
    /\ nReconnect' = 0
    /\ recent' = TRUE
    /\ UNCHANGED <<up, connected, alive, m_bConnectDB, clock>>

\* A statement that fails changes nothing: the reconnection is commented out.
Open(t) ==
    /\ clock = NoThread
    /\ Goes(t, "opens", Returned(t, connected /\ alive))
    /\ UNCHANGED <<up, connected, alive, m_bConnectDB, recent, nReconnect, clock>>

(***************************************************************************)
(* The database and the time.                                              *)
(***************************************************************************)
\* The database goes away, with the session it had, or comes back.
Outage ==
    /\ up' = ~ up
    /\ alive' = FALSE
    /\ UNCHANGED <<connected, m_bConnectDB, recent, nReconnect, clock, at>>

MinutePasses ==
    /\ recent' = FALSE
    /\ UNCHANGED <<up, connected, alive, m_bConnectDB, nReconnect, clock, at>>

\* The server has started: the first reading succeeded and disconnected.
Init ==
    /\ up = TRUE
    /\ connected = FALSE
    /\ alive = FALSE
    /\ m_bConnectDB = FALSE
    /\ recent = FALSE
    /\ nReconnect = 0
    /\ clock = NoThread
    /\ at = [t \in Thread \cup {Reader} |-> "idle"]

Next ==
    \/ ConnectDB
    \/ ConnectDBReturns
    \/ DisconnectDB
    \/ \E t \in Thread \cup {Reader} : ExecuteSQL(t)
    \/ \E t \in Thread \cup {Reader} : ReConnectTooSoon(t)
    \/ \E t \in Thread \cup {Reader} : ReConnectDB(t)
    \/ \E t \in Thread \cup {Reader} : ReConnectLogon(t)
    \/ \E t \in Thread \cup {Reader} : ReConnectReturns(t)
    \/ \E t \in Thread \cup {Reader} : Open(t)
    \/ Outage
    \/ MinutePasses

Spec == Init /\ [][Next]_vars

(***************************************************************************)
(* What a comment of the source says.                                      *)
(***************************************************************************)

\* DataBaseMgr.h calls m_bConnectDB the state of the connection: true while
\* connected, false while not.  When no thread is inside the manager and
\* m_bConnectDB says so, there is a connection.
StateKnown ==
    (\A t \in Thread \cup {Reader} : at[t] \in {"idle", "reads"}) /\ m_bConnectDB => connected
=============================================================================
