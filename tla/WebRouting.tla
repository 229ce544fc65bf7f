------------------------------ MODULE WebRouting ------------------------------
(***************************************************************************)
(* The configuration of the web server: a projection of the database that  *)
(* is rebuilt as a whole and sent by everybody who changes something       *)
(* (caddy/reconciler.ts, caddy/client.ts), the certificates the owners     *)
(* supplied, which go with it as files (tls/custom-certificates.ts,        *)
(* api/routers/ssl.ts), and a web server that starts from the              *)
(* configuration it saved (caddy/service.ts).                              *)
(*                                                                         *)
(* Nothing keeps two callers of apply apart: they interleave at each await *)
(* of the file system and of the web server's admin address.               *)
(***************************************************************************)
EXTENDS Naturals, FiniteSets

CONSTANTS Sites,
          Requests,    \* requests to the panel, one change each
          Boot,        \* whoever applies until the web server is ready: start-up, recovery
          Attempts,    \* how often that one tries
          MaxStops,    \* bound: ends of the web server
          MaxCrashes,  \* bound: ends of the panel
          None

ASSUME RoutingAssumption == /\ Attempts \in Nat \ {0}
                            /\ MaxStops \in Nat /\ MaxCrashes \in Nat
                            /\ Boot \notin Requests /\ None \notin Requests \cup {Boot}

VARIABLES on,       \* the sites the database has answered for
          cert,     \* the sites with a stored certificate
          keys,     \* the sites whose private key can be read: stored, and decrypted
          files,    \* the sites whose certificate is a file on disk
          op,       \* what a caller is there for
          site,     \* the site it concerns
          pc,       \* where its apply is
          rows,     \* the certificates it read and has still to write
          keep,     \* those it has written
          doomed,   \* the files it found and does not keep
          sent,     \* the configuration it has sent
          tries,    \* the attempts made of Boot's
          server,   \* is the web server up
          running,  \* the configuration it serves
          saved,    \* the one it saved, and starts from
          newest,   \* history: the last caller to build a configuration
          behind,   \* history: the newest one built is not what the web server got last
          crowded,  \* history: the callers that were not alone since they read the rows
          refused,  \* history: the callers whose configuration was refused
          stops, crashes

database == <<on, cert, keys>>
callers  == <<op, site, pc, rows, keep, doomed, sent, tries>>
caddy    == <<server, running, saved, stops>>
history  == <<newest, behind, crowded, refused>>
vars     == <<database, files, callers, caddy, history, crashes>>

Callers  == Requests \cup {Boot}
Ops      == {"none", "change", "upload", "undo", "remove", "boot", "over"}
Pcs      == {"idle", "write", "sweep", "load", "failed"}
Config   == [on : SUBSET Sites, certs : SUBSET Sites]
Nothing  == [on |-> {}, certs |-> {}]

\* A web server that runs what it was last sent, or a new one with nothing.
Init == /\ on \in SUBSET Sites /\ cert = {} /\ keys = {} /\ files = {}
        /\ op = [c \in Callers |-> "none"] /\ site = [c \in Callers |-> None]
        /\ pc = [c \in Callers |-> "idle"]
        /\ rows = [c \in Callers |-> {}] /\ keep = [c \in Callers |-> {}]
        /\ doomed = [c \in Callers |-> {}] /\ sent = [c \in Callers |-> None]
        /\ tries = 0
        /\ server = "up" /\ running = [on |-> on, certs |-> {}] /\ saved = running
        /\ newest = None /\ behind = FALSE /\ crowded = {} /\ refused = {}
        /\ stops = 0 /\ crashes = 0

-------------------------------------------------------------------------------
Set(f, c, x) == [f EXCEPT ![c] = x]
Working      == {c \in Callers : pc[c] \in {"write", "sweep", "load"}}

\* Those that are at work are no longer alone with the rows and the files.
Disturbed(c) == IF Working \ {c} = {} THEN crowded \ {c} ELSE crowded \cup Working \cup {c}

(***************************************************************************)
(* apply begins with the rows of the certificates, read with the change    *)
(* that called for it.                                                     *)
(***************************************************************************)
Apply(c, o, s, stored) ==
    /\ op' = Set(op, c, o) /\ site' = Set(site, c, s)
    /\ pc' = Set(pc, c, "write") /\ rows' = Set(rows, c, stored) /\ keep' = Set(keep, c, {})
    /\ crowded' = Disturbed(c) /\ refused' = refused \ {c}
    /\ UNCHANGED <<doomed, sent>>

\* A name added, a site switched on or off, deployed or removed: the certificate
\* goes with the site, its key does not.
Change(c, s) ==
    /\ c \in Requests /\ op[c] = "none"
    /\ \/ on' = on \cup {s} /\ UNCHANGED cert
       \/ on' = on \ {s} /\ cert' \in {cert, cert \ {s}}
    /\ Apply(c, "change", s, cert')
    /\ UNCHANGED <<keys, files, tries, caddy, newest, behind, crashes>>

Upload(c, s) ==
    /\ c \in Requests /\ op[c] = "none" /\ s \in on
    /\ cert' = cert \cup {s} /\ keys' = keys \cup {s}
    /\ Apply(c, "upload", s, cert')
    /\ UNCHANGED <<on, files, tries, caddy, newest, behind, crashes>>

Remove(c, s) ==
    /\ c \in Requests /\ op[c] = "none" /\ s \in cert
    /\ cert' = cert \ {s} /\ keys' = keys \ {s}
    /\ Apply(c, "remove", s, cert')
    /\ UNCHANGED <<on, files, tries, caddy, newest, behind, crashes>>

\* One certificate after the other; one whose key is gone, or cannot be
\* decrypted, is skipped.
Write(c) ==
    /\ pc[c] = "write"
    /\ \E s \in rows[c] :
         /\ rows' = Set(rows, c, rows[c] \ {s})
         /\ IF s \in keys
            THEN files' = files \cup {s} /\ keep' = Set(keep, c, keep[c] \cup {s})
            ELSE UNCHANGED <<files, keep>>
    /\ UNCHANGED <<database, op, site, pc, doomed, sent, tries, caddy, history, crashes>>

\* Bug: the files of other sites are left where they are.
Bug_Unused(c) == {}

\* Bug: only the file of the site it concerns is kept.
Bug_OwnFile(c) == files \ {site[c]}

Unused(c) == files \ keep[c]

\* A private key nobody uses does not stay on the disk.
List(c) ==
    /\ pc[c] = "write" /\ rows[c] = {}
    /\ doomed' = Set(doomed, c, Unused(c)) /\ keep' = Set(keep, c, {})
    /\ pc' = Set(pc, c, "sweep")
    /\ UNCHANGED <<database, files, op, site, rows, sent, tries, caddy, history, crashes>>

Sweep(c) ==
    /\ pc[c] = "sweep"
    /\ \E s \in doomed[c] : files' = files \ {s} /\ doomed' = Set(doomed, c, doomed[c] \ {s})
    /\ UNCHANGED <<database, op, site, pc, rows, keep, sent, tries, caddy, history, crashes>>

Failed(c) == pc' = Set(pc, c, "failed") /\ sent' = Set(sent, c, None)

\* A file that cannot be written or removed ends the apply.
DiskFails(c) ==
    /\ (pc[c] = "write" /\ rows[c] # {}) \/ (pc[c] = "sweep" /\ doomed[c] # {})
    /\ Failed(c)
    /\ rows' = Set(rows, c, {}) /\ keep' = Set(keep, c, {}) /\ doomed' = Set(doomed, c, {})
    /\ newest' = None /\ behind' = TRUE
    /\ UNCHANGED <<database, files, op, site, tries, caddy, crowded, refused, crashes>>

-------------------------------------------------------------------------------
(***************************************************************************)
(* The web server is asked for its admin address, and the configuration is *)
(* built and sent as soon as the answer is there.                          *)
(***************************************************************************)
Asks(c) == pc[c] = "sweep" /\ doomed[c] = {}

Send(c) ==
    /\ Asks(c) /\ server = "up"
    /\ sent' = Set(sent, c, [on |-> on, certs |-> cert])
    /\ pc' = Set(pc, c, "load")
    /\ newest' = c /\ behind' = TRUE
    /\ UNCHANGED <<database, files, op, site, rows, keep, doomed, tries, caddy, crowded, refused, crashes>>

Unreachable(c) ==
    /\ Asks(c) \/ (pc[c] = "load" /\ server = "down")
    /\ Failed(c)
    /\ newest' = None /\ behind' = TRUE
    /\ UNCHANGED <<database, files, op, site, rows, keep, doomed, tries, caddy, crowded, refused, crashes>>

\* A request is answered; Boot may be called again.
Ended(c) ==
    /\ op' = Set(op, c, IF c = Boot THEN "none" ELSE "over") /\ pc' = Set(pc, c, "idle")
    /\ site' = Set(site, c, None) /\ sent' = Set(sent, c, None)
    /\ tries' = IF c = Boot THEN 0 ELSE tries
    /\ crowded' = crowded \ {c} /\ refused' = refused \ {c}
    /\ UNCHANGED <<rows, keep, doomed>>

\* The web server reads every file the configuration names, or refuses all of it.
Loadable(config) == config.certs \subseteq files

\* It is taken and saved; the answer may be late, which counts as a failure.
Load(c) ==
    /\ pc[c] = "load" /\ server = "up" /\ Loadable(sent[c])
    /\ running' = sent[c] /\ saved' = sent[c]
    /\ behind' = (c # newest)
    /\ \/ Ended(c)
       \/ Failed(c) /\ UNCHANGED <<op, site, rows, keep, doomed, tries, crowded, refused>>
    /\ UNCHANGED <<database, files, server, stops, newest, crashes>>

Refused(c) ==
    /\ pc[c] = "load" /\ server = "up" /\ ~Loadable(sent[c])
    /\ Failed(c) /\ refused' = refused \cup {c}
    /\ newest' = None /\ behind' = TRUE
    /\ UNCHANGED <<database, files, op, site, rows, keep, doomed, tries, caddy, crowded, crashes>>

\* tryApply never throws: what was changed stays changed.
GiveUp(c) ==
    /\ c \in Requests /\ pc[c] = "failed" /\ op[c] # "upload"
    /\ Ended(c)
    /\ UNCHANGED <<database, files, caddy, newest, behind, crashes>>

\* Bug: the web server is not told that the certificate was taken back.
Bug_Undo(c) ==
    /\ pc[c] = "failed" /\ op[c] = "upload"
    /\ cert' = cert \ {site[c]} /\ keys' = keys \ {site[c]}
    /\ Ended(c)
    /\ UNCHANGED <<on, files, caddy, newest, behind, crashes>>

\* "Leaving it stored would mean the panel says one thing and the web server
\* serves another": the certificate is taken back.
Undo(c) ==
    /\ pc[c] = "failed" /\ op[c] = "upload"
    /\ cert' = cert \ {site[c]} /\ keys' = keys \ {site[c]}
    /\ Apply(c, "undo", site[c], cert')
    /\ UNCHANGED <<on, files, tries, caddy, newest, behind, crashes>>

-------------------------------------------------------------------------------
(***************************************************************************)
(* applyWhenReady, the ends of the panel, and the web server's service.    *)
(***************************************************************************)
BootApply == Apply(Boot, "boot", None, cert)

MayRetry == Boot \notin refused /\ tries < Attempts

\* Again, if the web server did not refuse it and there is an attempt left.
Again ==
    /\ pc[Boot] = "failed"
    /\ IF MayRetry
       THEN BootApply /\ tries' = tries + 1
       ELSE Ended(Boot)
    /\ UNCHANGED <<database, files, caddy, newest, behind, crashes>>

\* What was sent may arrive or not; the next process may not be able to decrypt
\* what this one encrypted ("a re-key, not a missing secret").
Crash ==
    /\ crashes < MaxCrashes /\ crashes' = crashes + 1
    /\ keys' \in {keys, {}}
    /\ \E in \in {running} \cup {sent[c] : c \in {d \in Callers : sent[d] # None}} :
          /\ in # running => server = "up" /\ Loadable(in)
          /\ running' = in /\ saved' = IF in = running THEN saved ELSE in
    /\ newest' = None /\ behind' = TRUE
    /\ op' = [c \in Callers |-> IF c = Boot THEN "boot" ELSE IF op[c] = "none" THEN "none" ELSE "over"]
    /\ pc' = [c \in Callers |-> IF c = Boot THEN "write" ELSE "idle"]
    /\ site' = [c \in Callers |-> None]
    /\ rows' = [c \in Callers |-> IF c = Boot THEN cert ELSE {}]
    /\ keep' = [c \in Callers |-> {}] /\ doomed' = [c \in Callers |-> {}]
    /\ sent' = [c \in Callers |-> None] /\ tries' = 1
    /\ crowded' = {} /\ refused' = {}
    /\ UNCHANGED <<on, cert, files, server, stops>>

Stop ==
    /\ server = "up" /\ stops < MaxStops /\ stops' = stops + 1
    /\ server' = "down" /\ running' = Nothing
    /\ UNCHANGED <<database, files, callers, saved, history, crashes>>

\* It starts from what it saved.
Start ==
    /\ server = "down" /\ Loadable(saved)
    /\ server' = "up" /\ running' = saved
    /\ newest' = None /\ behind' = TRUE
    /\ UNCHANGED <<database, files, callers, saved, stops, crowded, refused, crashes>>

\* Bug: the saved configuration is left where it is.
Bug_Aside == saved

Aside == Nothing

\* quarantineUnloadableCaddyConfig: one it cannot start from is moved aside, and
\* the current one is applied when it is ready.
Quarantine ==
    /\ server = "down" /\ ~Loadable(saved)
    /\ saved' = Aside
    /\ IF op[Boot] = "none" THEN BootApply /\ tries' = 1
       ELSE UNCHANGED <<callers, crowded, refused>>
    /\ UNCHANGED <<database, files, server, running, stops, newest, behind, crashes>>

ApplyStep(c) == \/ Write(c) \/ List(c) \/ Sweep(c) \/ DiskFails(c)
                \/ Send(c) \/ Unreachable(c) \/ Load(c) \/ Refused(c)
                \/ GiveUp(c) \/ Undo(c)

Next == \/ \E c \in Requests, s \in Sites : Change(c, s) \/ Upload(c, s) \/ Remove(c, s)
        \/ \E c \in Callers : ApplyStep(c)
        \/ Again \/ Crash \/ Stop \/ Start \/ Quarantine

\* Somebody starts a web server that is down.
Spec == Init /\ [][Next]_vars /\ WF_vars(Start) /\ WF_vars(Quarantine)

-------------------------------------------------------------------------------
(***************************************************************************)
(* Properties.                                                             *)
(***************************************************************************)
TypeOK == /\ on \in SUBSET Sites /\ cert \in SUBSET Sites /\ keys \in SUBSET Sites
          /\ files \in SUBSET Sites
          /\ op \in [Callers -> Ops] /\ site \in [Callers -> Sites \cup {None}]
          /\ pc \in [Callers -> Pcs]
          /\ rows \in [Callers -> SUBSET Sites] /\ keep \in [Callers -> SUBSET Sites]
          /\ doomed \in [Callers -> SUBSET Sites] /\ sent \in [Callers -> Config \cup {None}]
          /\ tries \in 0..Attempts
          /\ server \in {"up", "down"} /\ running \in Config /\ saved \in Config
          /\ newest \in Callers \cup {None} /\ behind \in BOOLEAN
          /\ crowded \in SUBSET Callers /\ refused \in SUBSET Callers
          /\ stops \in 0..MaxStops /\ crashes \in 0..MaxCrashes

Quiet == \A c \in Callers : pc[c] = "idle"

\* "The database is the single source of truth; Caddy holds a projection of it"
\* (reconciler.ts:33): when nobody is at work and the configuration built last is
\* the one the web server was last given, it serves what the database says.
Follows == Quiet /\ ~behind /\ server = "up" => running = [on |-> on, certs |-> cert]

\* "Two overlapping edits [...] would otherwise silently lose one of the changes"
\* (client.ts:10-12): when nobody is at work and no call failed since the newest
\* configuration was built, that is the one the web server was given last.
NoLostUpdate == Quiet /\ newest # None => ~behind

\* The certificates that can be written to the disk.
Usable == cert \cap keys

\* "Caddy refuses the entire configuration if a file it is pointed at has gone,
\* which would take every website down" (reconciler.ts:259-260): whoever applied
\* alone is refused only if a stored certificate has no key that can be read.
\* Then he is: its files are swept, and the configuration names them.
AloneTaken == [][\A c \in Callers \ crowded :
                   c \in refused' \ refused => ~(cert \subseteq keys)]_vars

\* "A private key nobody uses is still a private key sitting on the disk"
\* (custom-certificates.ts:318-319): an apply that was alone leaves the files of
\* the certificates that can be used, and no others.
KeysGone == \A c \in Callers \ crowded : Asks(c) \/ pc[c] = "load" => files = Usable

\* "A saved config it cannot load leaves the web server down for good"
\* (caddy/service.ts:107-108), which does not happen.
Starts == []<>(server = "up")
===============================================================================
