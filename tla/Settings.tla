------------------------------ MODULE Settings ------------------------------
(***************************************************************************)
(* The settings document and its application to the running process:       *)
(* backend/internal/api/settings_admin_v1.go, infra/persistence/sqlite/    *)
(* settings.go and runtimeSettingsApplier of backend/cmd/grok2api/main.go. *)
(*                                                                         *)
(* A save is one transaction; what follows, ApplySettings, configures one  *)
(* part of the process after the other, and nothing serializes two saves   *)
(* that apply.  The numbers of the document (pool, retry times, timeouts)  *)
(* are one value here, kept by five parts of the process.                  *)
(***************************************************************************)
EXTENDS Naturals

CONSTANTS
    Admins,    \* concurrent admin requests
    Values,    \* values of the numbers in a document
    Default,   \* the value Normalize puts in place of a missing one
    Missing,   \* a number left out, zero or negative
    GoodUrls,  \* proxy URLs that ConfigureProxy accepts
    BadUrls,   \* proxy URLs that it refuses
    NoUrl      \* the empty string

ASSUME SettingsAssumption ==
    /\ Default \in Values /\ Missing \notin Values
    /\ NoUrl \notin GoodUrls \cup BadUrls /\ GoodUrls \cap BadUrls = {}

Urls  == GoodUrls \cup BadUrls \cup {NoUrl}
Knobs == {"pool", "gateway", "admin", "recovery", "timeout"}
Order == <<"shared", "pool", "gateway", "admin", "recovery", "timeout", "proxy", "trace">>

Body == [value : Values \cup {Missing}, on : BOOLEAN, url : Urls, trace : BOOLEAN]
Doc  == [revision : Nat, value : Values, on : BOOLEAN, url : Urls, trace : BOOLEAN]

VARIABLES
    stored,  \* the row of app_settings
    shared,  \* *runtimeSettingsApplier.settings: the numbers and the fallback proxy
    live,    \* what the parts of the process, the client's proxy and the tracer run with
    seen,    \* the document each administrator's form was loaded from
    save,    \* saves being applied: the step in Order, the document, the local copy
    mixed    \* history: the last save was committed while another one was applied

settingsVars == <<stored, shared, live, seen, save, mixed>>

NoSave == [step |-> 0, doc |-> [revision |-> 0], kept |-> Default]

Saving(a)   == save[a].step # 0
Step(a, s)  == Saving(a) /\ Order[save[a].step] = s
Advance(a)  == [save EXCEPT ![a].step = @ + 1]

\* Defaults(), the document of a new database.
FirstDoc == [revision |-> 1, value |-> Default, on |-> FALSE, url |-> NoUrl, trace |-> FALSE]

\* The proxy in use before ConfigureProxy is NoUrl: direct.
ConfigureProxy(now, url, on) ==
    IF ~on \/ url = NoUrl THEN NoUrl ELSE IF url \in BadUrls THEN now ELSE url

\* resolveOutboundProxy with a document: the URL, and whether it is used.
resolveOutboundProxy(fallback, d) ==
    LET url == IF d.url = NoUrl THEN fallback ELSE d.url
    IN  [url |-> url, on |-> IF d.on \/ d.url = NoUrl THEN url # NoUrl ELSE FALSE]

\* Document.Normalize.
Normalize(b) == [b EXCEPT !.value = IF @ = Missing THEN Default ELSE @]

SettingsInit ==
    /\ stored = FirstDoc
    /\ shared = [value |-> Default, proxy |-> NoUrl]
    /\ live = [value |-> [k \in Knobs |-> Default], proxy |-> NoUrl, trace |-> FALSE]
    /\ seen = [a \in Admins |-> FirstDoc]
    /\ save = [a \in Admins |-> NoSave]
    /\ mixed = FALSE

-----------------------------------------------------------------------------
GetSettings(a) ==
    /\ ~Saving(a) /\ seen[a] # stored
    /\ seen' = [seen EXCEPT ![a] = stored]
    /\ UNCHANGED <<stored, shared, live, save, mixed>>

\* Mutant: the revision is not compared.
Unchanged_Always(a) == TRUE

\* The revision the form was loaded with is still the stored one.
Unchanged(a) == seen[a].revision = stored.revision

\* The transaction.  The body replaces every part of the document; a body that
\* Normalize refuses (400) and an outdated revision (409) change nothing.
PutSettings(a, body) ==
    LET n == Normalize(body)
        d == [revision |-> stored.revision + 1, value |-> n.value, on |-> n.on,
              url |-> n.url, trace |-> n.trace]
    IN  /\ ~Saving(a) /\ Unchanged(a)
        /\ stored' = d
        /\ seen' = [seen EXCEPT ![a] = d]
        /\ save' = [save EXCEPT ![a] = [step |-> 1, doc |-> d, kept |-> Default]]
        /\ mixed' = \E b \in Admins \ {a} : Saving(b)
        /\ UNCHANGED <<shared, live>>

\* *a.settings = applyManagedSettings(*a.settings, doc).
applyManagedSettings(a) ==
    /\ Step(a, "shared")
    /\ shared' = [shared EXCEPT !.value = save[a].doc.value]
    /\ save' = Advance(a)
    /\ UNCHANGED <<stored, live, seen, mixed>>

\* Mutant: the recovery worker is not told.
Told_NotRecovery(k, v) == IF k = "recovery" THEN live ELSE [live EXCEPT !.value[k] = v]

Told(k, v) == [live EXCEPT !.value[k] = v]

\* The scheduler and the timeout take the shared numbers; the retry times are
\* copied when the scheduler is configured and go to the three parts between
\* (two of which also read one number of the shared copy).
Configure(a) ==
    \E k \in Knobs :
        /\ Step(a, k)
        /\ live' = Told(k, IF k \in {"pool", "timeout"} THEN shared.value ELSE save[a].kept)
        /\ save' = [Advance(a) EXCEPT ![a].kept = IF k = "pool" THEN shared.value ELSE @]
        /\ UNCHANGED <<stored, shared, seen, mixed>>

\* The proxy in use becomes the fallback of later documents, unless it is
\* refused or off.
applyProxy(a) ==
    LET p   == resolveOutboundProxy(shared.proxy, save[a].doc)
        now == ConfigureProxy(live.proxy, p.url, p.on)
    IN  /\ Step(a, "proxy")
        /\ live' = [live EXCEPT !.proxy = now]
        /\ shared' = [shared EXCEPT !.proxy = IF p.on /\ p.url \notin BadUrls THEN p.url ELSE @]
        /\ save' = Advance(a)
        /\ UNCHANGED <<stored, seen, mixed>>

\* The tracer is configured and the handler answers.
applyTracer(a) ==
    /\ Step(a, "trace")
    /\ live' = [live EXCEPT !.trace = save[a].doc.trace]
    /\ save' = [save EXCEPT ![a] = NoSave]
    /\ UNCHANGED <<stored, shared, seen, mixed>>

ApplySettings(a) ==
    applyManagedSettings(a) \/ Configure(a) \/ applyProxy(a) \/ applyTracer(a)

\* serve: every part is built from the stored numbers; the file's proxy is the
\* fallback, and the file can turn the tracer on whatever the document says.
LoadSettings(fileProxy, fileTrace) ==
    LET p == resolveOutboundProxy(fileProxy, stored)
    IN  /\ shared' = [value |-> stored.value, proxy |-> fileProxy]
        /\ live' = [value |-> [k \in Knobs |-> stored.value],
                    proxy |-> ConfigureProxy(NoUrl, p.url, p.on),
                    trace |-> stored.trace \/ fileTrace]
        /\ mixed' = FALSE
        /\ UNCHANGED <<stored, seen, save>>

\* The process stops: handlers are gone, the row is not.
DropSettings ==
    /\ save' = [a \in Admins |-> NoSave]
    /\ UNCHANGED <<stored, shared, live, seen, mixed>>
=============================================================================
