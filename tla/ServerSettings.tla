---------------------------- MODULE ServerSettings ----------------------------
(***************************************************************************)
(* Where the app sends its requests: the live addresses of api/client.ts,    *)
(* the override saved on the device, and the settings screen that edits it.  *)
(* An address is a scheme and a host; "bare" is a host typed without one.     *)
(***************************************************************************)
EXTENDS Naturals, Sequences, SequencesExt

CONSTANTS
    Android,     \* Platform.OS === "android"
    Schemes,     \* what may precede "://"
    Hosts,       \* what may follow it
    DefaultApi,  \* configuredHttp of the build
    Typed,       \* bound: addresses a user types
    MaxChanges   \* bound: saves, resets and edits of the screen

\* Any scheme and host may be typed, these among them.
Addresses == [scheme : Schemes, host : Hosts]

ASSUME ServerConstants ==
    /\ {"bare", "http", "https", "ws", "wss"} \subseteq Schemes /\ {"none", "10.0.2.2"} \subseteq Hosts
    /\ DefaultApi \in Addresses /\ Typed \subseteq Addresses

VARIABLES
    base,     \* apiBase and wsBase
    override, \* collaberry.serverOverride on disk
    stores,   \* writes of that key on their way to the disk, oldest first
    form,     \* the screen: apiUrl, wsUrl, wsTouched, probe, saving
    changes   \* edits, saves and resets so far

server == <<base, override, stores, form, changes>>

Empty == [scheme |-> "bare", host |-> "none"]  \* an empty string
None == [api |-> Empty, ws |-> Empty]  \* no override

Loopback == {"localhost", "127.0.0.1", "0.0.0.0"}

\* Android's emulator reaches the host machine at another name.
RewriteLoopback(a) ==
    IF Android /\ a.host \in Loopback /\ a.scheme # "bare" THEN [a EXCEPT !.host = "10.0.2.2"] ELSE a

\* A typed host without a scheme becomes https, that of a realtime address too.
Normalize(a) == IF a # Empty /\ a.scheme = "bare" THEN [a EXCEPT !.scheme = "https"] ELSE a

\* The http(s) address's ws(s) twin; another scheme is left alone.
DeriveWs(a) ==
    CASE a.scheme = "http" -> [a EXCEPT !.scheme = "ws"]
      [] a.scheme = "https" -> [a EXCEPT !.scheme = "wss"]
      [] OTHER -> a

DefaultBase ==
    LET api == RewriteLoopback(DefaultApi) IN [api |-> api, ws |-> RewriteLoopback(DeriveWs(api))]

\* What loadServerOverride makes of the saved value.
Loaded(saved) ==
    IF saved.api = Empty THEN DefaultBase
    ELSE LET api == RewriteLoopback(Normalize(saved.api)) IN
         [api |-> api,
          ws |-> RewriteLoopback(IF saved.ws = Empty THEN DeriveWs(api) ELSE Normalize(saved.ws))]

Probes == {"idle", "testing", "ok", "fail", "saved"}
Screen(b) == [api |-> b.api, ws |-> b.ws, touched |-> FALSE, probe |-> "idle", asked |-> 0, saving |-> FALSE]

ServerInit ==
    /\ base = DefaultBase
    /\ override = None \/ \E a \in Typed : override = [api |-> Normalize(a), ws |-> DeriveWs(Normalize(a))]
    /\ stores = <<>> /\ changes = 0
    /\ form = Screen(base)

\* loadServerOverride, at boot: no override leaves the build's default.
LoadOverride ==
    /\ base' = Loaded(override)
    /\ UNCHANGED <<override, stores, form, changes>>

\* The screen is left and mounted anew: its fields show the live addresses,
\* untouched, and what the old one was waiting for no longer reaches it.
OpenSettings ==
    /\ form' = Screen(base)
    /\ stores' = [i \in 1..Len(stores) |-> [stores[i] EXCEPT !.by = "left"]]
    /\ UNCHANGED <<base, override, changes>>

Change == changes < MaxChanges /\ changes' = changes + 1

ApiChange(a) ==  \* the realtime field follows until it was edited by hand
    /\ Change
    /\ form' = [form EXCEPT !.api = a, !.probe = "idle",
                            !.ws = IF form.touched THEN @ ELSE DeriveWs(Normalize(a))]
    /\ UNCHANGED <<base, override, stores>>

WsChange(a) ==
    /\ Change
    /\ form' = [form EXCEPT !.ws = a, !.touched = TRUE]
    /\ UNCHANGED <<base, override, stores>>

ApplyPreset(a) ==
    /\ Change
    /\ form' = [form EXCEPT !.api = a, !.ws = DeriveWs(a), !.touched = FALSE, !.probe = "idle"]
    /\ UNCHANGED <<base, override, stores>>

\* probeServer asks the address of the field; an empty one is refused at once.
Probe ==
    /\ Change /\ form.probe # "testing"
    /\ form' = IF form.api = Empty THEN [form EXCEPT !.probe = "fail"]
               ELSE [form EXCEPT !.probe = "testing", !.asked = @ + 1]
    /\ UNCHANGED <<base, override, stores>>

\* Any HTTP answer counts; six seconds without one do not.  The line shows it
\* even when the field was edited since.
ProbeAnswered ==
    /\ form.asked > 0
    /\ \E p \in {"ok", "fail"} : form' = [form EXCEPT !.probe = p, !.asked = @ - 1]
    /\ UNCHANGED <<base, override, stores, changes>>

PointAtDerived(by, api, ws) ==  \* mutant: the derived realtime address is saved, not the typed one
    IF api = Empty THEN base' = DefaultBase /\ stores' = Append(stores, [by |-> by, saved |-> None])
    ELSE LET a == Normalize(api) w == IF ws = Empty THEN DeriveWs(a) ELSE Normalize(ws) IN
         /\ base' = [api |-> RewriteLoopback(a), ws |-> RewriteLoopback(w)]
         /\ stores' = Append(stores, [by |-> by, saved |-> [api |-> a, ws |-> DeriveWs(a)]])

\* setServerOverride: the addresses change now, the disk when the write is done.
PointAt(by, api, ws) ==
    IF api = Empty THEN base' = DefaultBase /\ stores' = Append(stores, [by |-> by, saved |-> None])
    ELSE LET a == Normalize(api) w == IF ws = Empty THEN DeriveWs(a) ELSE Normalize(ws) IN
         /\ base' = [api |-> RewriteLoopback(a), ws |-> RewriteLoopback(w)]
         /\ stores' = Append(stores, [by |-> by, saved |-> [api |-> a, ws |-> w]])

Save ==
    /\ Change /\ ~form.saving
    /\ PointAt("save", Normalize(form.api), IF form.touched THEN form.ws ELSE Empty)
    /\ form' = [form EXCEPT !.saving = TRUE]
    /\ UNCHANGED override

Reset ==
    /\ Change
    /\ PointAt("reset", Empty, Empty)
    /\ UNCHANGED <<form, override>>

\* The write is on disk; the screen that asked for it shows where the app now
\* talks to, which another save may have changed meanwhile.
Stored ==
    /\ stores # <<>>
    /\ override' = Head(stores).saved /\ stores' = Tail(stores)
    /\ LET by == Head(stores).by
           now == [form EXCEPT !.api = base.api, !.ws = base.ws, !.probe = "saved"] IN
       form' = CASE by = "save" -> [now EXCEPT !.saving = FALSE]
                 [] by = "reset" -> [now EXCEPT !.touched = FALSE]
                 [] by = "left" -> form
    /\ UNCHANGED <<base, changes>>

\* The app is killed: the screen and the writes not yet done are gone.
ServerCrash ==
    /\ base' = DefaultBase /\ stores' = <<>> /\ form' = Screen(DefaultBase)
    /\ UNCHANGED <<override, changes>>

ServerNext ==
    \/ OpenSettings \/ Probe \/ ProbeAnswered \/ Save \/ Reset \/ Stored
    \/ \E a \in Typed : ApiChange(a) \/ WsChange(a) \/ ApplyPreset(a)

-----------------------------------------------------------------------------
(* Properties *)

\* A restart would load the very addresses the app talks to now: saving and
\* loading agree on what a typed address means.
KeepsServer == stores = <<>> => base = Loaded(override)
=============================================================================
