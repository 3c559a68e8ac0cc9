------------------------------ MODULE Admission ------------------------------
(***************************************************************************)
(* server.Serve: the accept loop, the MaxConn semaphore, one goroutine per *)
(* admitted connection, the password callback that counts attempts per     *)
(* client IP under a mutex, the cleanup that forgets the count, and the    *)
(* context that closes the listener.                                       *)
(*                                                                         *)
(* A step is what happens between two points where another goroutine can   *)
(* be seen: the mutex makes "attempts[host]++; n := attempts[host]" one    *)
(* step, and the verdict, taken from the local n after the unlock, is      *)
(* another.  The SSH handshake (golang.org/x/crypto/ssh) is external: it   *)
(* calls the callback up to MaxAuthTries times and may fail at any moment  *)
(* (client error, disconnect, 30s read deadline).                          *)
(***************************************************************************)
EXTENDS Integers, FiniteSets

CONSTANTS
    Conn,           \* TCP connections that may exist at the same time
    Host,           \* client IP addresses
    NoHost,         \* "no connection here"
    MaxConn,        \* -max-conn: capacity of the semaphore
    AuthThreshold,  \* -auth-threshold, as configured (any integer)
    MaxAuthTries    \* ssh.ServerConfig.MaxAuthTries (20 in the code)

ASSUME ConnAssumption == IsFiniteSet(Conn)
ASSUME HostAssumption == NoHost \notin Host
ASSUME MaxConnAssumption == MaxConn \in Nat
ASSUME ThresholdAssumption == AuthThreshold \in Int
ASSUME TriesAssumption == MaxAuthTries \in Nat \ {0}

(* The clamp at the top of Serve: zero or less means "accept at once". *)
Threshold == IF AuthThreshold < 1 THEN 1 ELSE AuthThreshold

VARIABLES
    cancelled,  \* ctx is done (SIGINT / SIGTERM)
    listener,   \* "unbound" | "open" | "closed"
    serve,      \* the goroutine in Serve: "starting" | "accepting" | "returned"
    sem,        \* tokens in the semaphore channel
    pc,         \* where the goroutine of a connection is (Stage)
    host,       \* remote IP of a connection
    n,          \* the callback's local n; kept while its verdict is "accepted"
    tries,      \* passwords this connection had refused
    attempts,   \* the shared map; 0 is an absent key, which Go reads as 0
    refused     \* history: passwords refused since the address was let in

vars == <<cancelled, listener, serve, sem, pc, host, n, tries, attempts, refused>>
connVars == <<pc, host, n, tries>>
serverVars == <<cancelled, listener, serve>>

(* free: no such connection.  backlog: in the kernel's accept queue.        *)
(* handshake: in ssh.NewServerConn.  verdict: callback between unlock and   *)
(* return.  accepted: callback returned nil, handshake not finished.        *)
(* serving: handshake done, channels served.  failed / returned: Handle has *)
(* returned without / with a finished handshake.  cleaned: cleanup block    *)
(* done, the deferred semaphore release still to run.                       *)
InHandshake == {"handshake", "verdict", "accepted"}
InFlight == InHandshake \cup {"serving", "failed", "returned", "cleaned"}
Stage == {"free", "backlog"} \cup InFlight

HoldsSlot == {c \in Conn : pc[c] \in InFlight}

(* Connections whose password was (or is about to be) accepted and whose    *)
(* cleanup is still to come.                                                *)
Owners(h) == {c \in Conn : /\ pc[c] \in InFlight \ {"handshake", "cleaned"}
                           /\ host[c] = h
                           /\ n[c] >= Threshold}

Init ==
    /\ cancelled = FALSE
    /\ listener = "unbound"
    /\ serve = "starting"
    /\ sem = 0
    /\ pc = [c \in Conn |-> "free"]
    /\ host = [c \in Conn |-> NoHost]
    /\ n = [c \in Conn |-> 0]
    /\ tries = [c \in Conn |-> 0]
    /\ attempts = [h \in Host |-> 0]
    /\ refused = [h \in Host |-> 0]

-------------------------------------------------------------------------------
(* The environment: the signal and the clients. *)

Cancel ==
    /\ ~cancelled
    /\ cancelled' = TRUE
    /\ UNCHANGED <<listener, serve, sem, connVars, attempts, refused>>

Dial(c, h) ==
    /\ pc[c] = "free"
    /\ listener = "open"
    /\ pc' = [pc EXCEPT ![c] = "backlog"]
    /\ host' = [host EXCEPT ![c] = h]
    /\ UNCHANGED <<serverVars, sem, n, tries, attempts, refused>>

-------------------------------------------------------------------------------
(* The goroutine running Serve. *)

(* net.Listen binds the address, or Serve returns its error. *)
Listen ==
    /\ serve = "starting"
    /\ listener' = "open"
    /\ serve' = "accepting"
    /\ UNCHANGED <<cancelled, sem, connVars, attempts, refused>>

ListenFails ==
    /\ serve = "starting"
    /\ serve' = "returned"
    /\ UNCHANGED <<cancelled, listener, sem, connVars, attempts, refused>>

(* Mutant: room for one too many. *)
AdmitOneMore(c) ==
    /\ serve = "accepting" /\ listener = "open"
    /\ pc[c] = "backlog"
    /\ sem <= MaxConn
    /\ sem' = sem + 1
    /\ pc' = [pc EXCEPT ![c] = "handshake"]
    /\ UNCHANGED <<serverVars, host, n, tries, attempts, refused>>

(* Accept, a free slot: take it and start the goroutine, which sets the read *)
(* deadline and enters session.Handle.                                      *)
Admit(c) ==
    /\ serve = "accepting" /\ listener = "open"
    /\ pc[c] = "backlog"
    /\ sem < MaxConn
    /\ sem' = sem + 1
    /\ pc' = [pc EXCEPT ![c] = "handshake"]
    /\ UNCHANGED <<serverVars, host, n, tries, attempts, refused>>

(* Mutants: a rejected connection gives a slot back; the loop waits for one.  *)
RejectReleases(c) ==
    /\ serve = "accepting" /\ listener = "open"
    /\ pc[c] = "backlog"
    /\ sem >= MaxConn
    /\ sem' = sem - 1
    /\ pc' = [pc EXCEPT ![c] = "free"]
    /\ host' = [host EXCEPT ![c] = NoHost]
    /\ UNCHANGED <<serverVars, n, tries, attempts, refused>>
RejectNever(c) == pc[c] = "backlog" /\ sem >= MaxConn /\ UNCHANGED vars

(* Accept, no free slot: close at once, never wait for one. *)
Reject(c) ==
    /\ serve = "accepting" /\ listener = "open"
    /\ pc[c] = "backlog"
    /\ sem >= MaxConn
    /\ pc' = [pc EXCEPT ![c] = "free"]
    /\ host' = [host EXCEPT ![c] = NoHost]
    /\ UNCHANGED <<serverVars, sem, n, tries, attempts, refused>>

(* Accept returns an error while ctx is live: logged, and the loop goes on. *)
AcceptError ==
    /\ serve = "accepting"
    /\ ~cancelled
    /\ UNCHANGED vars

(* Closing the listener resets what is still in its backlog. *)
DropBacklog ==
    /\ pc' = [c \in Conn |-> IF pc[c] = "backlog" THEN "free" ELSE pc[c]]
    /\ host' = [c \in Conn |-> IF pc[c] = "backlog" THEN NoHost ELSE host[c]]
    /\ UNCHANGED <<n, tries>>

(* Mutant: nobody closes the listener. *)
CloseNothing == cancelled /\ listener = "open" /\ UNCHANGED vars

(* The goroutine that waits for ctx.Done() and closes the listener. *)
CloseListener ==
    /\ cancelled
    /\ listener = "open"
    /\ listener' = "closed"
    /\ DropBacklog
    /\ UNCHANGED <<cancelled, serve, sem, attempts, refused>>

(* Accept returns an error (the closed listener, or any other) after ctx is *)
(* done: Serve returns nil and its deferred Close runs.  It waits for no    *)
(* connection goroutine.                                                    *)
ServeReturns ==
    /\ serve = "accepting"
    /\ cancelled
    /\ serve' = "returned"
    /\ listener' = "closed"
    /\ DropBacklog
    /\ UNCHANGED <<cancelled, sem, attempts, refused>>

-------------------------------------------------------------------------------
(* The goroutine of one connection. *)

(* The callback's critical section, entered for each password offered. *)
Count(c) ==
    LET h == host[c]
        k == attempts[h] + 1
    IN  /\ pc[c] = "handshake"
        /\ attempts' = [attempts EXCEPT ![h] = k]
        /\ n' = [n EXCEPT ![c] = k]
        /\ pc' = [pc EXCEPT ![c] = "verdict"]
        /\ refused' = [refused EXCEPT ![h] = IF k < Threshold THEN @ + 1 ELSE 0]
        /\ UNCHANGED <<serverVars, sem, host, tries>>

(* The rest of the callback: the audit line and the verdict, from n. *)
Accept(c) ==
    /\ pc[c] = "verdict"
    /\ n[c] >= Threshold
    /\ pc' = [pc EXCEPT ![c] = "accepted"]
    /\ UNCHANGED <<serverVars, sem, host, n, tries, attempts, refused>>

(* A refusal lets the client try again, MaxAuthTries times in all. *)
Refuse(c) ==
    /\ pc[c] = "verdict"
    /\ n[c] < Threshold
    /\ n' = [n EXCEPT ![c] = 0]
    /\ tries' = [tries EXCEPT ![c] = @ + 1]
    /\ pc' = [pc EXCEPT ![c] = IF tries[c] + 1 < MaxAuthTries
                                 THEN "handshake" ELSE "failed"]
    /\ UNCHANGED <<serverVars, sem, host, attempts, refused>>

(* NewServerConn succeeds; the read deadline is dropped. *)
HandshakeOk(c) ==
    /\ pc[c] = "accepted"
    /\ pc' = [pc EXCEPT ![c] = "serving"]
    /\ UNCHANGED <<serverVars, sem, host, n, tries, attempts, refused>>

(* Mutant: no deadline on a client that never finishes its handshake. *)
FailOnceAccepted(c) ==
    /\ pc[c] = "accepted"
    /\ pc' = [pc EXCEPT ![c] = "failed"]
    /\ UNCHANGED <<serverVars, sem, host, n, tries, attempts, refused>>

(* NewServerConn fails: bad client, disconnect, or the 30s read deadline. *)
HandshakeFails(c) ==
    /\ pc[c] \in {"handshake", "accepted"}
    /\ pc' = [pc EXCEPT ![c] = "failed"]
    /\ UNCHANGED <<serverVars, sem, host, n, tries, attempts, refused>>

(* The client goes away, the channel loop of Handle ends. *)
HandleReturns(c) ==
    /\ pc[c] = "serving"
    /\ pc' = [pc EXCEPT ![c] = "returned"]
    /\ UNCHANGED <<serverVars, sem, host, n, tries, attempts, refused>>

(* Mutants of the cleanup: forget on every close (the bug NOTES.md:80        *)
(* records); forget only for a connection that reached the shell; take off   *)
(* one round instead of forgetting; skip connections that failed.            *)
CleanupWith(c, stages, count) ==
    /\ pc[c] \in stages
    /\ attempts' = [attempts EXCEPT ![host[c]] = count]
    /\ pc' = [pc EXCEPT ![c] = "cleaned"]
    /\ UNCHANGED <<serverVars, sem, host, n, tries, refused>>
CleanupAlways(c) == CleanupWith(c, {"failed", "returned"}, 0)
CleanupAfterShell(c) ==
    LET k == attempts[host[c]]
    IN  CleanupWith(c, {"failed", "returned"},
                    IF pc[c] = "returned" /\ k >= Threshold THEN 0 ELSE k)
CleanupSubtracts(c) ==
    LET k == attempts[host[c]]
    IN  CleanupWith(c, {"failed", "returned"}, IF k >= Threshold THEN k - Threshold ELSE k)
CleanupReturned(c) ==
    LET k == attempts[host[c]]
    IN  CleanupWith(c, {"returned"}, IF k >= Threshold THEN 0 ELSE k)

(* The second critical section: judged by the shared count, not by how this *)
(* connection fared.                                                        *)
Cleanup(c) ==
    LET h == host[c]
    IN  /\ pc[c] \in {"failed", "returned"}
        /\ attempts' = IF attempts[h] >= Threshold
                         THEN [attempts EXCEPT ![h] = 0] ELSE attempts
        /\ pc' = [pc EXCEPT ![c] = "cleaned"]
        /\ UNCHANGED <<serverVars, sem, host, n, tries, refused>>

(* The deferred receive from the semaphore; the goroutine ends. *)
Release(c) ==
    /\ pc[c] = "cleaned"
    /\ sem' = sem - 1
    /\ pc' = [pc EXCEPT ![c] = "free"]
    /\ host' = [host EXCEPT ![c] = NoHost]
    /\ n' = [n EXCEPT ![c] = 0]
    /\ tries' = [tries EXCEPT ![c] = 0]
    /\ UNCHANGED <<serverVars, attempts, refused>>

Goroutine(c) ==
    \/ Count(c) \/ Accept(c) \/ Refuse(c)
    \/ HandshakeOk(c) \/ HandshakeFails(c) \/ HandleReturns(c)
    \/ Cleanup(c) \/ Release(c)

Server ==
    \/ Listen \/ ListenFails \/ AcceptError \/ CloseListener \/ ServeReturns
    \/ \E c \in Conn : Admit(c) \/ Reject(c)

Next ==
    \/ Cancel
    \/ \E c \in Conn, h \in Host : Dial(c, h)
    \/ Server
    \/ \E c \in Conn : Goroutine(c)

Spec == Init /\ [][Next]_vars

(* Runnable goroutines run, and a handshake ends because of its read        *)
(* deadline.  Nothing makes a client dial, offer a password or go away.     *)
Fairness ==
    /\ WF_vars(Listen \/ ListenFails)
    /\ WF_vars(CloseListener)
    /\ WF_vars(listener = "closed" /\ ServeReturns)
    /\ \A c \in Conn :
         /\ WF_vars(Admit(c) \/ Reject(c))
         /\ WF_vars(Accept(c) \/ Refuse(c))
         /\ WF_vars(HandshakeOk(c) \/ HandshakeFails(c))
         /\ WF_vars(Cleanup(c))
         /\ WF_vars(Release(c))

FairSpec == Spec /\ Fairness

-------------------------------------------------------------------------------
(* Properties.                                                             *)

(* Every variable has its type. *)
TypeOK ==
    /\ cancelled \in BOOLEAN
    /\ listener \in {"unbound", "open", "closed"}
    /\ serve \in {"starting", "accepting", "returned"}
    /\ sem \in Nat
    /\ pc \in [Conn -> Stage]
    /\ host \in [Conn -> Host \cup {NoHost}]
    /\ \A c \in Conn : host[c] = NoHost <=> pc[c] = "free"
    /\ n \in [Conn -> Nat]
    /\ tries \in [Conn -> 0..MaxAuthTries]
    /\ attempts \in [Host -> Nat]
    /\ refused \in [Host -> Nat]

(* The semaphore holds exactly one token per connection goroutine, whatever *)
(* way the connection ended, and never more than -max-conn of them.         *)
SlotAccounting ==
    /\ sem = Cardinality(HoldsSlot)
    /\ sem <= MaxConn

(* README "Auth behavior": the passwords an address had refused since it was *)
(* let in are exactly what its counter says, so fewer than Threshold: no     *)
(* close of a refused connection loses one, and no race doubles one.         *)
HarvestExact ==
    \A h \in Host :
        refused[h] = IF attempts[h] < Threshold THEN attempts[h] ELSE 0

(* A counter at or over the threshold always has a connection in flight that *)
(* was accepted and whose cleanup will forget it, and it passed the          *)
(* threshold by at most one per such connection: an address is never left    *)
(* let in for ever, and the counter needs no other bound.                    *)
CounterOwned ==
    \A h \in Host :
        attempts[h] >= Threshold =>
            attempts[h] - Threshold < Cardinality(Owners(h))

(* Admission implements the promise made to each address. *)
Gate == INSTANCE AuthGate
            WITH open <- {h \in Host : attempts[h] >= Threshold}
GateSpec == Gate!Spec

(* Every connection leaves the handshake: slow clients cannot keep it        *)
(* (server.go:97, the 30s deadline).                                         *)
HandshakeBounded ==
    \A c \in Conn : pc[c] \in InHandshake ~> pc[c] \notin InHandshake

(* The accept loop never waits for a slot: whoever dials is admitted or      *)
(* closed, even while MaxConn clients sit in their sessions for ever.        *)
BacklogDrained == \A c \in Conn : pc[c] = "backlog" ~> pc[c] # "backlog"

(* When Handle returns, the slot comes back.                                 *)
SlotReturned ==
    \A c \in Conn : pc[c] \in {"failed", "returned"} ~> pc[c] = "free"

(* A signal ends Serve, whatever the connections are doing.                  *)
ShutdownCompletes == cancelled ~> serve = "returned"
===============================================================================
