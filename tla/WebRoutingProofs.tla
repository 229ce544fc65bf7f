--------------------------- MODULE WebRoutingProofs ----------------------------
(***************************************************************************)
(* That the web server follows the database, that an apply which was alone *)
(* is only refused over a key that cannot be read, and that no key stays   *)
(* on the disk, for any number of sites and requests and any number of     *)
(* ends of the web server and of the panel.                                *)
(*                                                                         *)
(* An apply reads, writes, sweeps and sends with awaits in between, and is *)
(* only right about the rows it read while nobody else is at work.  The    *)
(* invariant follows one that is alone from step to step, and for the rest *)
(* says only whose configuration is the newest.                            *)
(***************************************************************************)
EXTENDS WebRouting, TLAPS

\* Who was not disturbed is the only one at work.
Alone == \A c \in Working \ crowded : Working = {c}

\* And then it has yet to write, or has written, every certificate that can be
\* used, and dooms or has removed every other file.
Exact == \A c \in Working \ crowded :
    /\ pc[c] = "write" => rows[c] \subseteq cert /\ keep[c] = Usable \ rows[c]
        /\ keep[c] \subseteq files
    /\ pc[c] = "sweep" => Usable \subseteq files /\ doomed[c] = files \ Usable
    /\ pc[c] = "load" => files = Usable /\ sent[c].certs = cert

\* Once everybody has sent what he came for, the newest configuration is what
\* the database says, on its way and at the web server.
AllSent == \A c \in Callers : pc[c] \notin {"write", "sweep"}
Current == [on |-> on, certs |-> cert]
Newest  == /\ AllSent /\ newest # None /\ pc[newest] = "load" => sent[newest] = Current
           /\ AllSent /\ ~behind /\ server = "up" => running = Current

\* Whoever waits for the web server has sent something.
OnItsWay == \A c \in Callers : pc[c] = "load" => sent[c] \in Config

IInv == TypeOK /\ Alone /\ Exact /\ Newest /\ OnItsWay

LEMMA InitHolds == Init => IInv
<1> SUFFICES ASSUME Init PROVE IInv
  OBVIOUS
<1>1. TypeOK
  <2>1. running \in Config /\ saved \in Config
    BY DEF Init, Config
  <2>2. \A c \in Callers : op[c] \in Ops /\ pc[c] \in Pcs
    BY DEF Init, Ops, Pcs
  <2>3. op \in [Callers -> Ops] /\ pc \in [Callers -> Pcs]
    BY <2>2 DEF Init
  <2>4. /\ rows \in [Callers -> SUBSET Sites] /\ keep \in [Callers -> SUBSET Sites]
        /\ doomed \in [Callers -> SUBSET Sites]
    BY DEF Init
  <2>5. site \in [Callers -> Sites \cup {None}] /\ sent \in [Callers -> Config \cup {None}]
    BY DEF Init
  <2>6. tries \in 0..Attempts /\ stops \in 0..MaxStops /\ crashes \in 0..MaxCrashes
    BY RoutingAssumption DEF Init
  <2>7. /\ on \in SUBSET Sites /\ cert \in SUBSET Sites /\ keys \in SUBSET Sites
        /\ files \in SUBSET Sites
        /\ crowded \in SUBSET Callers /\ refused \in SUBSET Callers
        /\ server \in {"up", "down"} /\ newest \in Callers \cup {None} /\ behind \in BOOLEAN
    BY DEF Init
  <2> QED BY <2>1, <2>3, <2>4, <2>5, <2>6, <2>7 DEF TypeOK
<1>2. Working = {}
  BY DEF Init, Working
<1>3. Alone /\ Exact
  BY <1>2 DEF Init, Alone, Exact
<1>4. Newest /\ OnItsWay
  BY DEF Init, Newest, Current, OnItsWay
<1> QED BY <1>1, <1>3, <1>4 DEF IInv

\* Every apply that begins is alone, or makes everybody crowded.
LEMMA ApplyKeeps ==
    ASSUME IInv, NEW c \in Callers, NEW o \in Ops, NEW s \in Sites \cup {None},
           on' \in SUBSET Sites, cert' \in SUBSET Sites, keys' \in SUBSET Sites, Apply(c, o, s, cert'),
           tries' \in 0..Attempts, saved' \in Config,
           UNCHANGED <<files, server, running, stops, newest, behind, crashes>>
    PROVE  IInv'
<1> USE DEF IInv
<1>1. /\ op' = [op EXCEPT ![c] = o] /\ site' = [site EXCEPT ![c] = s]
      /\ pc' = [pc EXCEPT ![c] = "write"] /\ rows' = [rows EXCEPT ![c] = cert']
      /\ keep' = [keep EXCEPT ![c] = {}] /\ UNCHANGED <<doomed, sent>>
      /\ crowded' = Disturbed(c) /\ refused' = refused \ {c}
  BY DEF Apply, Set
<1>2. Working' = Working \cup {c}
  BY <1>1 DEF Working, TypeOK
<1>3. Working \subseteq Callers
  BY DEF Working
<1>4. TypeOK'
  <2>1. op' \in [Callers -> Ops] /\ site' \in [Callers -> Sites \cup {None}]
    BY <1>1 DEF TypeOK
  <2>2. pc' \in [Callers -> Pcs]
    BY <1>1 DEF TypeOK, Pcs
  <2>3. rows' \in [Callers -> SUBSET Sites] /\ keep' \in [Callers -> SUBSET Sites]
    BY <1>1 DEF TypeOK
  <2>4. crowded' \in SUBSET Callers /\ refused' \in SUBSET Callers
    BY <1>1, <1>3 DEF TypeOK, Disturbed
  <2> QED BY <1>1, <2>1, <2>2, <2>3, <2>4 DEF TypeOK
<1>5. \A d \in Working' \ crowded' : d = c /\ Working' = {c}
  BY <1>1, <1>2 DEF Disturbed
<1>6. Alone'
  BY <1>5 DEF Alone
<1>7. Exact'
  BY <1>1, <1>5 DEF Exact, Usable, TypeOK
<1>8. Newest'
  BY <1>1 DEF Newest, AllSent, TypeOK
<1>9. OnItsWay'
  BY <1>1 DEF OnItsWay, TypeOK
<1> QED BY <1>4, <1>6, <1>7, <1>8, <1>9

\* A caller that is through leaves the others as they are.
LEMMA EndedKeeps ==
    ASSUME IInv, NEW c \in Callers, Ended(c), pc[c] \notin {"write", "sweep"},
           UNCHANGED <<database, files, caddy, newest, behind, crashes>>
    PROVE  IInv'
<1> USE DEF IInv, database, caddy
<1>1. /\ op' \in [Callers -> Ops] /\ pc' = [pc EXCEPT ![c] = "idle"]
      /\ site' = [site EXCEPT ![c] = None] /\ sent' = [sent EXCEPT ![c] = None]
      /\ tries' \in 0..Attempts /\ crowded' = crowded \ {c} /\ refused' = refused \ {c}
      /\ UNCHANGED <<rows, keep, doomed>>
  BY RoutingAssumption DEF Ended, Set, Ops, TypeOK
<1>2. Working' = Working \ {c}
  BY <1>1 DEF Working, TypeOK
<1>3. TypeOK'
  BY <1>1 DEF TypeOK, Pcs
<1>4. Alone'
  BY <1>1, <1>2 DEF Alone
<1>5. Exact'
  BY <1>1, <1>2 DEF Exact, Usable, Working, TypeOK
<1>6. Newest'
  BY <1>1 DEF Newest, AllSent, Current, TypeOK
<1>7. OnItsWay'
  BY <1>1 DEF OnItsWay, TypeOK
<1> QED BY <1>3, <1>4, <1>5, <1>6, <1>7

LEMMA WriteKeeps ==
    ASSUME IInv, NEW c \in Callers, Write(c)
    PROVE  IInv'
<1> USE RoutingAssumption DEF IInv, database, callers, caddy, history, Set
<1>1. TypeOK'
  BY DEF Write, TypeOK, Ops, Pcs, Config
<1>2. Alone'
  BY DEF Write, Alone, Working, TypeOK
<1>3. Exact'
  BY DEF Write, Exact, Usable, Alone, Working, TypeOK
<1>4. Newest'
  BY DEF Write, Newest, AllSent, Current, TypeOK
<1>5. OnItsWay'
  BY DEF Write, OnItsWay, TypeOK, Config
<1> QED BY <1>1, <1>2, <1>3, <1>4, <1>5

LEMMA ListKeeps ==
    ASSUME IInv, NEW c \in Callers, List(c)
    PROVE  IInv'
<1> USE RoutingAssumption DEF IInv, database, callers, caddy, history, Set
<1>1. TypeOK'
  BY DEF List, Unused, TypeOK, Ops, Pcs, Config
<1>2. Alone'
  BY DEF List, Unused, Alone, Working, TypeOK
<1>3. Exact'
  BY DEF List, Unused, Exact, Usable, Alone, Working, TypeOK
<1>4. Newest'
  BY DEF List, Unused, Newest, AllSent, Current, TypeOK
<1>5. OnItsWay'
  BY DEF List, Unused, OnItsWay, TypeOK, Config
<1> QED BY <1>1, <1>2, <1>3, <1>4, <1>5

LEMMA SweepKeeps ==
    ASSUME IInv, NEW c \in Callers, Sweep(c)
    PROVE  IInv'
<1> USE RoutingAssumption DEF IInv, database, callers, caddy, history, Set
<1>1. TypeOK'
  BY DEF Sweep, TypeOK, Ops, Pcs, Config
<1>2. Alone'
  BY DEF Sweep, Alone, Working, TypeOK
<1>3. Exact'
  BY DEF Sweep, Exact, Usable, Alone, Working, TypeOK
<1>4. Newest'
  BY DEF Sweep, Newest, AllSent, Current, TypeOK
<1>5. OnItsWay'
  BY DEF Sweep, OnItsWay, TypeOK, Config
<1> QED BY <1>1, <1>2, <1>3, <1>4, <1>5

LEMMA DiskFailsKeeps ==
    ASSUME IInv, NEW c \in Callers, DiskFails(c)
    PROVE  IInv'
<1> USE RoutingAssumption DEF IInv, database, callers, caddy, history, Set
<1>1. TypeOK'
  BY DEF DiskFails, Failed, TypeOK, Ops, Pcs, Config
<1>2. Alone'
  BY DEF DiskFails, Failed, Alone, Working, TypeOK
<1>3. Exact'
  BY DEF DiskFails, Failed, Exact, Usable, Alone, Working, TypeOK
<1>4. Newest'
  BY DEF DiskFails, Failed, Newest, AllSent, Current, TypeOK
<1>5. OnItsWay'
  BY DEF DiskFails, Failed, OnItsWay, TypeOK, Config
<1> QED BY <1>1, <1>2, <1>3, <1>4, <1>5

LEMMA SendKeeps ==
    ASSUME IInv, NEW c \in Callers, Send(c)
    PROVE  IInv'
<1> USE RoutingAssumption DEF IInv, database, callers, caddy, history, Set
<1>1. TypeOK'
  BY DEF Send, Asks, TypeOK, Ops, Pcs, Config
<1>2. Alone'
  BY DEF Send, Asks, Alone, Working, TypeOK
<1>3. Exact'
  <2>1. /\ pc[c] = "sweep" /\ doomed[c] = {} /\ pc' = [pc EXCEPT ![c] = "load"]
        /\ sent' = [sent EXCEPT ![c] = [on |-> on, certs |-> cert]]
        /\ UNCHANGED <<cert, keys, files, rows, keep, doomed, crowded>>
    BY DEF Send, Asks
  <2>2. Working' = Working /\ c \in Working /\ Working \subseteq Callers
    BY <2>1 DEF Working, TypeOK
  <2>3. c \notin crowded => files = Usable
    BY <2>1, <2>2 DEF Exact
  <2>4. sent'[c] = [on |-> on, certs |-> cert]
    BY <2>1 DEF TypeOK
  <2>5. sent'[c].certs = cert
    BY <2>4
  <2>6. ASSUME NEW d \in Working \ crowded, d # c PROVE pc'[d] = pc[d] /\ sent'[d] = sent[d]
    BY <2>1, <2>2, <2>6 DEF TypeOK
  <2>7. pc'[c] = "load"
    BY <2>1 DEF TypeOK
  <2> QED BY <2>1, <2>2, <2>3, <2>5, <2>6, <2>7 DEF Exact, Usable
<1>4. Newest'
  BY DEF Send, Asks, Newest, AllSent, Current, TypeOK
<1>5. OnItsWay'
  BY DEF Send, Asks, OnItsWay, TypeOK, Config
<1> QED BY <1>1, <1>2, <1>3, <1>4, <1>5

LEMMA UnreachableKeeps ==
    ASSUME IInv, NEW c \in Callers, Unreachable(c)
    PROVE  IInv'
<1> USE RoutingAssumption DEF IInv, database, callers, caddy, history, Set
<1>1. TypeOK'
  BY DEF Unreachable, Asks, Failed, TypeOK, Ops, Pcs, Config
<1>2. Alone'
  BY DEF Unreachable, Asks, Failed, Alone, Working, TypeOK
<1>3. Exact'
  BY DEF Unreachable, Asks, Failed, Exact, Usable, Alone, Working, TypeOK
<1>4. Newest'
  BY DEF Unreachable, Asks, Failed, Newest, AllSent, Current, TypeOK
<1>5. OnItsWay'
  BY DEF Unreachable, Asks, Failed, OnItsWay, TypeOK, Config
<1> QED BY <1>1, <1>2, <1>3, <1>4, <1>5

LEMMA LoadKeeps ==
    ASSUME IInv, NEW c \in Callers, Load(c)
    PROVE  IInv'
<1> USE RoutingAssumption DEF IInv, database, callers, caddy, history, Set
<1>1. TypeOK'
  <2>1. running' \in Config /\ saved' \in Config
    BY DEF Load, OnItsWay
  <2>2. pc' \in [Callers -> Pcs] /\ sent' \in [Callers -> Config \cup {None}]
    BY DEF Load, Ended, Failed, TypeOK, Pcs
  <2>3. op' \in [Callers -> Ops] /\ site' \in [Callers -> Sites \cup {None}] /\ tries' \in 0..Attempts
    BY DEF Load, Ended, TypeOK, Ops
  <2>4. crowded' \in SUBSET Callers /\ refused' \in SUBSET Callers /\ behind' \in BOOLEAN
    BY DEF Load, Ended, TypeOK
  <2> QED BY <2>1, <2>2, <2>3, <2>4 DEF Load, Ended, TypeOK
<1>2. Alone'
  BY DEF Load, Ended, Failed, Loadable, Alone, Working, TypeOK
<1>3. Exact'
  BY DEF Load, Ended, Failed, Loadable, Exact, Usable, Alone, Working, TypeOK
<1>4. Newest'
  <2>1. /\ pc[c] = "load" /\ running' = sent[c] /\ behind' = (c # newest)
        /\ UNCHANGED <<on, cert, server, newest>>
    BY DEF Load
  <2>2. \E l \in {"idle", "failed"} : pc' = [pc EXCEPT ![c] = l]
    BY DEF Load, Ended, Failed
  <2>3. sent' = [sent EXCEPT ![c] = None]
    BY DEF Load, Ended, Failed
  <2>4. AllSent' => AllSent
    BY <2>1, <2>2 DEF AllSent, TypeOK
  <2>5. ASSUME AllSent', newest' # None, pc'[newest'] = "load" PROVE sent'[newest'] = Current'
    <3>1. newest # c
      BY <2>1, <2>2, <2>5 DEF TypeOK
    <3> QED BY <2>1, <2>2, <2>3, <2>4, <2>5, <3>1 DEF Newest, Current, TypeOK
  <2>6. ASSUME AllSent', ~behind', server' = "up" PROVE running' = Current'
    <3>1. c = newest /\ c # None
      BY <2>1, <2>6, RoutingAssumption DEF Callers
    <3> QED BY <2>1, <2>4, <2>6, <3>1 DEF Newest, Current
  <2> QED BY <2>5, <2>6 DEF Newest
<1>5. OnItsWay'
  BY DEF Load, Ended, Failed, Loadable, OnItsWay, TypeOK, Config
<1> QED BY <1>1, <1>2, <1>3, <1>4, <1>5

LEMMA RefusedKeeps ==
    ASSUME IInv, NEW c \in Callers, Refused(c)
    PROVE  IInv'
<1> USE RoutingAssumption DEF IInv, database, callers, caddy, history, Set
<1>1. TypeOK'
  BY DEF Refused, Failed, Loadable, TypeOK, Ops, Pcs, Config
<1>2. Alone'
  BY DEF Refused, Failed, Loadable, Alone, Working, TypeOK
<1>3. Exact'
  BY DEF Refused, Failed, Loadable, Exact, Usable, Alone, Working, TypeOK
<1>4. Newest'
  BY DEF Refused, Failed, Loadable, Newest, AllSent, Current, TypeOK
<1>5. OnItsWay'
  BY DEF Refused, Failed, Loadable, OnItsWay, TypeOK, Config
<1> QED BY <1>1, <1>2, <1>3, <1>4, <1>5

LEMMA GiveUpKeeps ==
    ASSUME IInv, NEW c \in Callers, GiveUp(c)
    PROVE  IInv'
<1> USE RoutingAssumption DEF IInv, database, callers, caddy, history, Set
<1>1. TypeOK'
  BY DEF GiveUp, Ended, TypeOK, Ops, Pcs, Config
<1>2. Alone'
  BY DEF GiveUp, Ended, Alone, Working, TypeOK
<1>3. Exact'
  BY DEF GiveUp, Ended, Exact, Usable, Alone, Working, TypeOK
<1>4. Newest'
  BY DEF GiveUp, Ended, Newest, AllSent, Current, TypeOK
<1>5. OnItsWay'
  BY DEF GiveUp, Ended, OnItsWay, TypeOK, Config
<1> QED BY <1>1, <1>2, <1>3, <1>4, <1>5

LEMMA CrashKeeps ==
    ASSUME IInv, Crash
    PROVE  IInv'
<1> USE RoutingAssumption DEF IInv, database, callers, caddy, history, Set
<1>1. TypeOK'
  BY DEF Crash, Loadable, TypeOK, Ops, Pcs, Config
<1>2. Alone'
  BY DEF Crash, Loadable, Alone, Working, TypeOK
<1>3. Exact'
  BY DEF Crash, Loadable, Exact, Usable, Alone, Working, TypeOK
<1>4. Newest'
  BY DEF Crash, Loadable, Newest, AllSent, Current, TypeOK
<1>5. OnItsWay'
  BY DEF Crash, Loadable, OnItsWay, TypeOK, Config
<1> QED BY <1>1, <1>2, <1>3, <1>4, <1>5

LEMMA StopKeeps ==
    ASSUME IInv, Stop
    PROVE  IInv'
<1> USE RoutingAssumption DEF IInv, database, callers, caddy, history, Set
<1>1. TypeOK'
  BY DEF Stop, Nothing, TypeOK, Ops, Pcs, Config
<1>2. Alone'
  BY DEF Stop, Nothing, Alone, Working, TypeOK
<1>3. Exact'
  BY DEF Stop, Nothing, Exact, Usable, Alone, Working, TypeOK
<1>4. Newest'
  BY DEF Stop, Nothing, Newest, AllSent, Current, TypeOK
<1>5. OnItsWay'
  BY DEF Stop, Nothing, OnItsWay, TypeOK, Config
<1> QED BY <1>1, <1>2, <1>3, <1>4, <1>5

LEMMA StartKeeps ==
    ASSUME IInv, Start
    PROVE  IInv'
<1> USE RoutingAssumption DEF IInv, database, callers, caddy, history, Set
<1>1. TypeOK'
  BY DEF Start, Loadable, TypeOK, Ops, Pcs, Config
<1>2. Alone'
  BY DEF Start, Loadable, Alone, Working, TypeOK
<1>3. Exact'
  BY DEF Start, Loadable, Exact, Usable, Alone, Working, TypeOK
<1>4. Newest'
  BY DEF Start, Loadable, Newest, AllSent, Current, TypeOK
<1>5. OnItsWay'
  BY DEF Start, Loadable, OnItsWay, TypeOK, Config
<1> QED BY <1>1, <1>2, <1>3, <1>4, <1>5

\* The actions that are a change and the beginning of an apply.
LEMMA BeginningsKeep ==
    ASSUME IInv
    PROVE  /\ \A c \in Requests, s \in Sites : Change(c, s) \/ Upload(c, s) \/ Remove(c, s) => IInv'
           /\ \A c \in Callers : Undo(c) => IInv'
           /\ Again => IInv'
           /\ Quarantine => IInv'
<1> USE RoutingAssumption DEF IInv, caddy
<1>1. ASSUME NEW c \in Requests, NEW s \in Sites,
             Change(c, s) \/ Upload(c, s) \/ Remove(c, s) PROVE IInv'
  <2>1. on' \in SUBSET Sites /\ cert' \in SUBSET Sites /\ keys' \in SUBSET Sites
    BY <1>1 DEF Change, Upload, Remove, TypeOK
  <2>2. PICK o \in {"change", "upload", "remove"} : Apply(c, o, s, cert')
    BY <1>1 DEF Change, Upload, Remove
  <2>3. UNCHANGED <<files, tries, caddy, newest, behind, crashes>>
    BY <1>1 DEF Change, Upload, Remove
  <2>4. c \in Callers /\ o \in Ops
    BY DEF Callers, Ops
  <2> QED BY <2>1, <2>2, <2>3, <2>4, ApplyKeeps DEF TypeOK
<1>2. ASSUME NEW c \in Callers, Undo(c) PROVE IInv'
  <2>1. /\ on' \in SUBSET Sites /\ cert' \in SUBSET Sites /\ keys' \in SUBSET Sites
        /\ site[c] \in Sites \cup {None} /\ "undo" \in Ops
    BY <1>2 DEF Undo, TypeOK, Ops
  <2>2. Apply(c, "undo", site[c], cert') /\ UNCHANGED <<files, tries, caddy, newest, behind, crashes>>
    BY <1>2 DEF Undo
  <2> QED BY <2>1, <2>2, ApplyKeeps DEF TypeOK
<1>3. Boot \in Callers /\ "boot" \in Ops
  BY DEF Callers, Ops
<1>4. ASSUME BootApply, database' = database, tries' \in 0..Attempts, saved' \in Config,
             UNCHANGED <<files, server, running, stops, newest, behind, crashes>>
      PROVE  IInv'
  <2>1. on' = on /\ cert' = cert /\ keys' = keys
    BY <1>4 DEF database
  <2>2. Apply(Boot, "boot", None, cert')
    BY <1>4, <2>1 DEF BootApply
  <2> QED BY <1>3, <1>4, <2>1, <2>2, ApplyKeeps DEF TypeOK
<1>5. ASSUME Again PROVE IInv'
  <2>1. CASE MayRetry
    <3>1. BootApply /\ tries' = tries + 1
          /\ UNCHANGED <<database, files, caddy, newest, behind, crashes>>
      BY <1>5, <2>1 DEF Again
    <3>2. tries' \in 0..Attempts
      BY <2>1, <3>1 DEF MayRetry, TypeOK
    <3> QED BY <1>4, <3>1, <3>2 DEF TypeOK
  <2>2. CASE ~MayRetry
    <3>1. Ended(Boot) /\ pc[Boot] = "failed"
          /\ UNCHANGED <<database, files, caddy, newest, behind, crashes>>
      BY <1>5, <2>2 DEF Again
    <3> QED BY <1>3, <3>1, EndedKeeps
  <2> QED BY <2>1, <2>2
<1>6. ASSUME Quarantine PROVE IInv'
  <2>1. saved' \in Config
        /\ UNCHANGED <<database, files, server, running, stops, newest, behind, crashes>>
    BY <1>6 DEF Quarantine, Aside, Nothing, Config
  <2>2. CASE op[Boot] = "none"
    <3>1. BootApply /\ tries' = 1
      BY <1>6, <2>2 DEF Quarantine
    <3> QED BY <1>4, <2>1, <3>1
  <2>3. CASE op[Boot] # "none"
    <3>1. UNCHANGED <<callers, crowded, refused>>
      BY <1>6, <2>3 DEF Quarantine
    <3> QED BY <2>1, <3>1 DEF callers, database, TypeOK, Alone, Exact, Working, Usable,
                             Newest, AllSent, Current, OnItsWay
  <2> QED BY <2>2, <2>3
<1> QED BY <1>1, <1>2, <1>5, <1>6

\* Every step of the callers, the panel and the web server keeps the invariant.
LEMMA StepKeeps == IInv /\ [Next]_vars => IInv'
<1>1. ASSUME IInv, Next PROVE IInv'
  BY <1>1, BeginningsKeep, WriteKeeps, ListKeeps, SweepKeeps, DiskFailsKeeps, SendKeeps,
  UnreachableKeeps, LoadKeeps,
     RefusedKeeps, GiveUpKeeps, CrashKeeps, StopKeeps, StartKeeps DEF Next, ApplyStep
<1>2. ASSUME IInv, UNCHANGED vars PROVE IInv'
  BY <1>2 DEF vars, database, callers, caddy, history, IInv, TypeOK, Alone, Exact, Working, Usable,
     Newest, AllSent, Current, OnItsWay
<1> QED BY <1>1, <1>2

LEMMA Invariance == Spec => []IInv
<1> QED BY InitHolds, StepKeeps, PTL DEF Spec

\* Types, for any sites, requests and attempts.
THEOREM TypeCorrect == Spec => []TypeOK
<1>1. IInv => TypeOK
  BY DEF IInv
<1> QED BY <1>1, Invariance, PTL

\* When everybody is through and the newest configuration is the one the web
\* server got last, it serves what the database says.
THEOREM ServerFollows == Spec => []Follows
<1>1. IInv => Follows
  BY DEF IInv, Follows, Quiet, Newest, AllSent, Current
<1> QED BY <1>1, Invariance, PTL

\* The caller whose configuration is refused was at work, and had sent it.
LEMMA NewlyRefused ==
    ASSUME Next, NEW c \in Callers, c \in refused' \ refused
    PROVE  Refused(c)
<1> USE DEF callers, caddy, history, Set
<1>1. ASSUME NEW d \in Requests, NEW s \in Sites,
             Change(d, s) \/ Upload(d, s) \/ Remove(d, s) PROVE FALSE
  BY <1>1 DEF Change, Upload, Remove, Apply
<1>2. ASSUME NEW d \in Callers, ApplyStep(d) PROVE Refused(c)
  <2>1. CASE Write(d) \/ List(d) \/ Sweep(d) \/ DiskFails(d) \/ Send(d) \/ Unreachable(d)
    BY <2>1 DEF Write, List, Sweep, DiskFails, Send, Unreachable
  <2>2. CASE Load(d) \/ GiveUp(d) \/ Undo(d)
    BY <2>2 DEF Load, GiveUp, Undo, Ended, Apply
  <2>3. CASE Refused(d)
    BY <2>3 DEF Refused
  <2> QED BY <1>2, <2>1, <2>2, <2>3 DEF ApplyStep
<1>3. ASSUME Again \/ Crash \/ Stop \/ Start \/ Quarantine PROVE FALSE
  BY <1>3 DEF Again, BootApply, Apply, Ended, Crash, Stop, Start, Quarantine
<1> QED BY <1>1, <1>2, <1>3 DEF Next

\* Whoever applied alone is refused only over a stored certificate whose key
\* cannot be read (reconciler.ts:171-177, custom-certificates.ts:295-300).
THEOREM AloneIsTaken == Spec => AloneTaken
<1>1. ASSUME IInv, Next, NEW c \in Callers \ crowded, c \in refused' \ refused
      PROVE  ~(cert \subseteq keys)
  <2>1. pc[c] = "load" /\ ~(sent[c].certs \subseteq files)
    BY <1>1, NewlyRefused DEF Refused, Loadable
  <2>2. files = Usable /\ sent[c].certs = cert
    BY <1>1, <2>1 DEF IInv, Exact, Working
  <2> QED BY <2>1, <2>2 DEF Usable
<1>2. IInv /\ [Next]_vars => [\A c \in Callers \ crowded :
                                c \in refused' \ refused => ~(cert \subseteq keys)]_vars
  BY <1>1
<1> QED BY <1>2, Invariance, PTL DEF Spec, AloneTaken

\* An apply that was alone leaves the files of the certificates that can be used,
\* and no other key.
THEOREM NoKeyStays == Spec => []KeysGone
<1>1. ASSUME IInv, NEW c \in Callers \ crowded, Asks(c) \/ pc[c] = "load" PROVE files = Usable
  <2>1. c \in Working
    BY <1>1 DEF Asks, Working
  <2> QED BY <1>1, <2>1 DEF IInv, Exact, Asks
<1>2. IInv => KeysGone
  BY <1>1 DEF KeysGone
<1> QED BY <1>2, Invariance, PTL
================================================================================
