------------------------- MODULE ControlPlaneProofs -------------------------
(***************************************************************************)
(* The managed configuration, for any number of administrators, settings,  *)
(* models and starts: no save is lost, the running process follows the     *)
(* stored document and the model table, seeds do not overwrite rows, the   *)
(* secrets of the file are used once, and who serves has bootstrapped.     *)
(*                                                                         *)
(* That a process with nothing under way runs with the stored document is  *)
(* the end of an argument over the steps of ApplySettings: while one save  *)
(* alone is applied, every part before its present step has been told, and *)
(* the copies it reads (the shared numbers, its own) are those of the      *)
(* document (Applying).  The catalog is alike: the one handler rebuilding  *)
(* it holds the list of the present table, or has yet to read it.          *)
(***************************************************************************)
EXTENDS ControlPlane, SequenceTheorems, WellFoundedInduction, TLAPS

\* A form that is not the stored document is older.
FormsOlder == \A a \in Admins : seen[a] = stored \/ seen[a].revision < stored.revision

\* A one-time marker stands for its outcome; the configured password has been
\* used once serve is past its first transaction, the key past the second.
MarkersTrue ==
    /\ {"admin", "legacy_admin"} \cap markers # {} => admin # NoSecret
    /\ "client_key" \in markers => legacy # NoKey
    /\ phase \in {"admin", "serving"} /\ Password \in Strong => admin # NoSecret
    /\ phase = "serving" /\ config.key # NoSecret => legacy.hash = config.key

ProxyFollows ==
    /\ stored.on /\ stored.url \in GoodUrls => live.proxy = stored.url
    /\ ~stored.on /\ stored.url # NoUrl => live.proxy = NoUrl

Applied ==
    /\ \A k \in Knobs : live.value[k] = stored.value
    /\ ProxyFollows
    /\ stored.trace => live.trace
    /\ live.trace => stored.trace \/ config.trace

\* What a save that is applied alone has achieved before its present step.
Applying(a) ==
    LET s == save[a].step IN
    /\ save[a].doc = stored
    /\ s > 1 => shared.value = stored.value
    /\ s > 2 => live.value["pool"] = stored.value /\ save[a].kept = stored.value
    /\ s > 3 => live.value["gateway"] = stored.value
    /\ s > 4 => live.value["admin"] = stored.value
    /\ s > 5 => live.value["recovery"] = stored.value
    /\ s > 6 => live.value["timeout"] = stored.value
    /\ s > 7 => ProxyFollows

SettingsFollow ==
    /\ phase # "serving" => \A a \in Admins : ~Saving(a)
    /\ phase = "serving" /\ ~mixed =>
          /\ \A a, b \in Admins : Saving(a) /\ Saving(b) => a = b
          /\ \A a \in Admins : Saving(a) => Applying(a)
          /\ (\A a \in Admins : ~Saving(a)) => Applied

Rebuilding(e) == At(e, "list") \/ At(e, "assign")

CatalogFollow ==
    /\ phase # "down" => \A id \in Seeds : Exists(models, id)
    /\ phase # "serving" => \A e \in Editors : edit[e] = NoEdit
    /\ phase = "serving" /\ ~crossed =>
          /\ \A e, f \in Editors : Rebuilding(e) /\ Rebuilding(f) => e = f
          /\ \A e \in Editors : At(e, "assign") => edit[e].rows = Listed(models)
          /\ (\A e \in Editors : ~Rebuilding(e)) => catalog = BuildCatalog(Listed(models))

-----------------------------------------------------------------------------
(* The three parts of the state, each with its types.                      *)

SaveRec == [step : 1 .. 8, doc : Doc, kept : Values]
EditRec == {NoEdit, [step |-> "list"]} \cup [step : {"patch"}, id : Ids, row : Row]
               \cup [step : {"assign"}, rows : Table]
Shared  == [value : Values, proxy : Urls]
Live    == [value : [Knobs -> Values], proxy : GoodUrls \cup {NoUrl}, trace : BOOLEAN]

ProcessOK == phase \in Phases /\ config \in Config

SettingsTypes ==
    /\ stored \in Doc /\ seen \in [Admins -> Doc]
    /\ shared \in Shared /\ live \in Live
    /\ save \in [Admins -> SaveRec \cup {NoSave}] /\ mixed \in BOOLEAN

RegistryTypes ==
    models \in Table /\ edit \in [Editors -> EditRec] /\ crossed \in BOOLEAN

SecurityTypes ==
    /\ admin \in Strong \cup {NoSecret} /\ markers \subseteq Markers
    /\ legacy \in [hash : Keys \cup {NoSecret}, revoked : BOOLEAN]

SettingsInv == SettingsTypes /\ FormsOlder /\ SettingsFollow
RegistryInv == RegistryTypes /\ CatalogFollow
SecurityInv == SecurityTypes /\ MarkersTrue

PlaneInv == ProcessOK /\ SettingsInv /\ RegistryInv /\ SecurityInv

-----------------------------------------------------------------------------
(* Settings.                                                               *)

\* The document written at the first start is a document.
LEMMA FirstDocType == FirstDoc \in Doc /\ NoSave.step = 0
BY SettingsAssumption DEF FirstDoc, Doc, Urls, NoSave

\* The step that Order names at a position.
LEMMA StepPosition ==
    ASSUME NEW a \in Admins, save[a] \in SaveRec \cup {NoSave}
    PROVE  /\ Saving(a) <=> save[a] \in SaveRec
           /\ Step(a, "shared") => save[a].step = 1
           /\ Step(a, "pool") => save[a].step = 2
           /\ Step(a, "gateway") => save[a].step = 3
           /\ Step(a, "admin") => save[a].step = 4
           /\ Step(a, "recovery") => save[a].step = 5
           /\ Step(a, "timeout") => save[a].step = 6
           /\ Step(a, "proxy") => save[a].step = 7
           /\ Step(a, "trace") => save[a].step = 8
<1>1. Saving(a) <=> save[a] \in SaveRec
  BY FirstDocType DEF Saving, SaveRec
<1>2. Saving(a) => save[a].step \in 1 .. 8
  BY <1>1 DEF SaveRec
<1>3. /\ Order[1] = "shared" /\ Order[2] = "pool" /\ Order[3] = "gateway"
      /\ Order[4] = "admin" /\ Order[5] = "recovery" /\ Order[6] = "timeout"
      /\ Order[7] = "proxy" /\ Order[8] = "trace"
  BY DEF Order
<1>4. \A i \in 1 .. 8 : i = 1 \/ i = 2 \/ i = 3 \/ i = 4 \/ i = 5 \/ i = 6 \/ i = 7 \/ i = 8
  OBVIOUS
<1> QED
  BY <1>1, <1>2, <1>3, <1>4 DEF Step

\* Steps that concern neither the settings nor the process's use of them.
LEMMA SettingsStill ==
    ASSUME SettingsInv, UNCHANGED settingsVars,
           \/ UNCHANGED <<phase, config>>
           \/ phase # "serving" /\ phase' # "serving"
    PROVE  SettingsInv'
BY DEF SettingsInv, SettingsTypes, FormsOlder, SettingsFollow, Applying, Applied, ProxyFollows,
       settingsVars, Saving

\* ApplySettings goes on to the next part with the same document.
LEMMA ApplyMoves ==
    ASSUME SettingsInv, UNCHANGED <<stored, seen, mixed, phase, config>>, phase = "serving",
           NEW a \in Admins, Saving(a), NEW q \in SaveRec,
           save' = [save EXCEPT ![a] = q], shared' \in Shared, live' \in Live,
           Applying(a) => Applying(a)'
    PROVE  SettingsInv'
<1>1. save \in [Admins -> SaveRec \cup {NoSave}] /\ save'[a] = q /\ q.step # 0
  BY DEF SettingsInv, SettingsTypes, SaveRec
<1>2. Saving(a)' /\ \A b \in Admins \ {a} : save'[b] = save[b] /\ (Saving(b)' <=> Saving(b))
  BY <1>1 DEF Saving
<1>3. SettingsTypes' /\ FormsOlder'
  BY <1>1 DEF SettingsInv, SettingsTypes, FormsOlder
<1>4. SettingsFollow'
  <2> SUFFICES ASSUME ~mixed
               PROVE  /\ \A b, c \in Admins : Saving(b)' /\ Saving(c)' => b = c
                      /\ \A b \in Admins : Saving(b)' => Applying(b)'
                      /\ ~\A b \in Admins : ~Saving(b)'
    BY DEF SettingsFollow
  <2>1. (\A b \in Admins : Saving(b) => b = a) /\ Applying(a)
    BY DEF SettingsInv, SettingsFollow
  <2> QED
    BY <1>2, <2>1
<1> QED
  BY <1>3, <1>4 DEF SettingsInv

\* A save is accepted only from the version that is stored.
LEMMA PutSettingsMoves ==
    ASSUME SettingsInv, UNCHANGED <<phase, config>>, phase = "serving",
           NEW a \in Admins, NEW body \in Bodies, PutSettings(a, body)
    PROVE  /\ SettingsInv'
           /\ seen[a] = stored /\ seen'[a] = stored'
<1> DEFINE n == Normalize(body)
           d == [revision |-> stored.revision + 1, value |-> n.value, on |-> n.on,
                 url |-> n.url, trace |-> n.trace]
           q == [step |-> 1, doc |-> d, kept |-> Default]
<1>1. n.value \in Values /\ n.on \in BOOLEAN /\ n.url \in Urls /\ n.trace \in BOOLEAN
  BY ControlPlaneAssumption, SettingsAssumption DEF Normalize, Body
<1>2. stored.revision \in Nat /\ stored \in Doc /\ seen \in [Admins -> Doc]
      /\ save \in [Admins -> SaveRec \cup {NoSave}] /\ FormsOlder
  BY DEF SettingsInv, SettingsTypes, Doc
<1>3. d \in Doc /\ d.revision = stored.revision + 1
  BY <1>1, <1>2 DEF Doc
<1>4. /\ stored' = d /\ seen' = [seen EXCEPT ![a] = d] /\ save' = [save EXCEPT ![a] = q]
      /\ mixed' = \E b \in Admins \ {a} : Saving(b)
      /\ UNCHANGED <<shared, live>> /\ seen[a].revision = stored.revision
  BY DEF PutSettings, Unchanged
<1> HIDE DEF n, d
<1>5. q \in SaveRec /\ q.doc = d /\ q.step = 1
  BY <1>3, SettingsAssumption DEF SaveRec
<1>6. seen[a] = stored
  BY <1>2, <1>4 DEF FormsOlder, Doc
<1>7. mixed' \in BOOLEAN
  BY <1>4
<1>8. SettingsTypes'
  BY <1>2, <1>3, <1>4, <1>5, <1>7 DEF SettingsInv, SettingsTypes
<1>9. FormsOlder'
  <2> SUFFICES ASSUME NEW b \in Admins
               PROVE  seen'[b] = d \/ seen'[b].revision < stored.revision + 1
    BY <1>3, <1>4 DEF FormsOlder
  <2>1. seen[b].revision \in Nat /\ seen[b].revision <= stored.revision
    BY <1>2 DEF FormsOlder, Doc
  <2> QED
    BY <1>2, <1>4, <2>1
<1>10. SettingsFollow'
  <2> SUFFICES ASSUME ~mixed'
               PROVE  /\ \A b, c \in Admins : Saving(b)' /\ Saving(c)' => b = c
                      /\ \A b \in Admins : Saving(b)' => Applying(b)'
                      /\ ~\A b \in Admins : ~Saving(b)'
    BY DEF SettingsFollow
  <2>1. save'[a] = q /\ \A b \in Admins \ {a} : save'[b] = save[b] /\ ~Saving(b)
    BY <1>2, <1>4
  <2>2. Saving(a)' /\ \A b \in Admins \ {a} : ~Saving(b)'
    BY <1>5, <2>1 DEF Saving
  <2>3. Applying(a)'
    BY <1>4, <1>5, <2>1 DEF Applying
  <2> QED
    BY <2>2, <2>3
<1> QED
  BY <1>2, <1>4, <1>6, <1>8, <1>9, <1>10 DEF SettingsInv

\* The proxy that a document resolves to is one ConfigureProxy accepts, and the
\* document's own when it is enabled and valid.
LEMMA ResolvedProxy ==
    ASSUME NEW d \in Doc, NEW fallback \in Urls, NEW now \in GoodUrls \cup {NoUrl},
           NEW p, p = resolveOutboundProxy(fallback, d),
           NEW c, c = ConfigureProxy(now, p.url, p.on)
    PROVE  /\ p.url \in Urls /\ p.on \in BOOLEAN
           /\ c \in GoodUrls \cup {NoUrl}
           /\ d.on /\ d.url \in GoodUrls => c = d.url
           /\ ~d.on /\ d.url # NoUrl => c = NoUrl
<1>1. d.url \in Urls /\ d.on \in BOOLEAN
  BY DEF Doc
<1>2. p.url = (IF d.url = NoUrl THEN fallback ELSE d.url) /\ p.url \in Urls
  BY <1>1 DEF resolveOutboundProxy
<1>3. p.on = (IF d.on \/ d.url = NoUrl THEN p.url # NoUrl ELSE FALSE)
  BY <1>2 DEF resolveOutboundProxy
<1>4. c = IF ~p.on \/ p.url = NoUrl THEN NoUrl ELSE IF p.url \in BadUrls THEN now ELSE p.url
  BY DEF ConfigureProxy
<1> QED
  BY <1>1, <1>2, <1>3, <1>4, SettingsAssumption DEF Urls

\* Reading the document changes nothing that runs.
LEMMA GetSettingsMoves ==
    ASSUME SettingsInv, UNCHANGED <<phase, config>>, NEW a \in Admins, GetSettings(a)
    PROVE  SettingsInv'
<1>1. UNCHANGED <<stored, shared, live, save, mixed>> /\ seen' = [seen EXCEPT ![a] = stored]
  BY DEF GetSettings
<1>2. SettingsTypes'
  BY <1>1 DEF SettingsInv, SettingsTypes
<1>3. FormsOlder'
  BY <1>1 DEF SettingsInv, SettingsTypes, FormsOlder
<1>4. SettingsFollow'
  BY <1>1 DEF SettingsInv, SettingsFollow, Applying, Applied, ProxyFollows, Saving
<1> QED
  BY <1>2, <1>3, <1>4 DEF SettingsInv

\* Copying the numbers into the shared copy.
LEMMA SharedMoves ==
    ASSUME SettingsInv, UNCHANGED <<phase, config>>, phase = "serving",
           NEW a \in Admins, applyManagedSettings(a)
    PROVE  SettingsInv'
<1> DEFINE q == [save[a] EXCEPT !.step = @ + 1]
<1>1. /\ UNCHANGED <<stored, live, seen, mixed>> /\ save' = Advance(a) /\ Saving(a)
      /\ Step(a, "shared") /\ shared' = [shared EXCEPT !.value = save[a].doc.value]
  BY DEF applyManagedSettings, Step
<1>2. save \in [Admins -> SaveRec \cup {NoSave}] /\ shared \in Shared /\ live \in Live
  BY DEF SettingsInv, SettingsTypes
<1>3. save[a] \in SaveRec /\ save[a].step = 1
  BY <1>1, <1>2, StepPosition
<1>4. q \in SaveRec /\ q.step = 2 /\ q.doc = save[a].doc
  BY <1>3 DEF SaveRec
<1>5. save' = [save EXCEPT ![a] = q]
  BY <1>1, <1>2 DEF Advance
<1>6. save[a].doc \in Doc /\ save[a].doc.value \in Values
  BY <1>3 DEF SaveRec, Doc
<1>7. shared' \in Shared /\ shared'.value = save[a].doc.value
  BY <1>1, <1>2, <1>6 DEF Shared
<1> HIDE DEF q
<1>8. Applying(a) => Applying(a)'
  BY <1>1, <1>2, <1>4, <1>5, <1>7 DEF Applying
<1> QED
  BY <1>1, <1>2, <1>4, <1>5, <1>7, <1>8, ApplyMoves

\* Configuring the next part from the shared copy.
LEMMA ConfigureMoves ==
    ASSUME SettingsInv, UNCHANGED <<phase, config>>, phase = "serving",
           NEW a \in Admins, Configure(a)
    PROVE  SettingsInv'
<1>1. PICK k \in Knobs :
        /\ Step(a, k)
        /\ live' = Told(k, IF k \in {"pool", "timeout"} THEN shared.value ELSE save[a].kept)
        /\ save' = [Advance(a) EXCEPT ![a].kept = IF k = "pool" THEN shared.value ELSE @]
        /\ UNCHANGED <<stored, shared, seen, mixed>>
  BY DEF Configure
<1> DEFINE v == IF k \in {"pool", "timeout"} THEN shared.value ELSE save[a].kept
           w == IF k = "pool" THEN shared.value ELSE save[a].kept
           n == save[a].step + 1
           q == [save[a] EXCEPT !.step = n, !.kept = w]
<1>2. save \in [Admins -> SaveRec \cup {NoSave}] /\ shared \in Shared /\ live \in Live
  BY DEF SettingsInv, SettingsTypes
<1>3. Saving(a) /\ save[a] \in SaveRec
  BY <1>1, <1>2, StepPosition DEF Step
<1>4. /\ k = "pool" => save[a].step = 2
      /\ k = "gateway" => save[a].step = 3
      /\ k = "admin" => save[a].step = 4
      /\ k = "recovery" => save[a].step = 5
      /\ k = "timeout" => save[a].step = 6
  BY <1>1, <1>2, StepPosition
<1>5. k = "pool" \/ k = "gateway" \/ k = "admin" \/ k = "recovery" \/ k = "timeout"
  BY DEF Knobs
<1>6. save[a].step \in 2 .. 6
  BY <1>4, <1>5
<1>7. save[a].kept \in Values /\ shared.value \in Values
  BY <1>2, <1>3 DEF SaveRec, Shared
<1>8. v \in Values /\ w \in Values
  BY <1>7
<1>9. /\ k = "pool" => v = shared.value /\ w = shared.value
      /\ k = "timeout" => v = shared.value /\ w = save[a].kept
      /\ k \in {"gateway", "admin", "recovery"} => v = save[a].kept /\ w = save[a].kept
  OBVIOUS
<1>10. save' = [save EXCEPT ![a] = q]
  BY <1>1, <1>2, <1>3 DEF Advance, SaveRec
<1>11. live' = [live EXCEPT !.value[k] = v]
  BY <1>1 DEF Told
<1> HIDE DEF v, w
<1>12. q \in SaveRec /\ q.step = save[a].step + 1 /\ q.doc = save[a].doc /\ q.kept = w
  <2>1. n \in 1 .. 8
    BY <1>6
  <2>2. save[a].doc \in Doc
    BY <1>3 DEF SaveRec
  <2> HIDE DEF n
  <2>3. q \in SaveRec /\ q.step = n /\ q.doc = save[a].doc /\ q.kept = w
    BY <1>3, <1>8, <2>1, <2>2 DEF SaveRec
  <2> QED
    BY <2>3 DEF n
<1> HIDE DEF q
<1>13. live' \in Live /\ live'.value = [live.value EXCEPT ![k] = v] /\ live'.proxy = live.proxy
  BY <1>2, <1>8, <1>11 DEF Live
<1>14. live'.value[k] = v /\ \A j \in Knobs \ {k} : live'.value[j] = live.value[j]
  BY <1>2, <1>13 DEF Live
<1>15. Applying(a) => Applying(a)'
  <2> SUFFICES ASSUME Applying(a) PROVE Applying(a)'
    OBVIOUS
  <2>1. save'[a] = q /\ shared' = shared /\ stored' = stored
    BY <1>1, <1>2, <1>10
  <2>2. ProxyFollows => ProxyFollows'
    BY <1>1, <1>13 DEF ProxyFollows
  <2>3. CASE k = "pool"
    BY <1>4, <1>9, <1>12, <1>14, <2>1, <2>2, <2>3 DEF Applying, Knobs
  <2>4. CASE k = "gateway"
    BY <1>4, <1>9, <1>12, <1>14, <2>1, <2>2, <2>4 DEF Applying, Knobs
  <2>5. CASE k = "admin"
    BY <1>4, <1>9, <1>12, <1>14, <2>1, <2>2, <2>5 DEF Applying, Knobs
  <2>6. CASE k = "recovery"
    BY <1>4, <1>9, <1>12, <1>14, <2>1, <2>2, <2>6 DEF Applying, Knobs
  <2>7. CASE k = "timeout"
    BY <1>4, <1>9, <1>12, <1>14, <2>1, <2>2, <2>7 DEF Applying, Knobs
  <2> QED
    BY <1>5, <2>3, <2>4, <2>5, <2>6, <2>7
<1>16. shared' \in Shared
  BY <1>1, <1>2
<1> QED
  BY <1>1, <1>3, <1>10, <1>12, <1>13, <1>15, <1>16, ApplyMoves

\* Applying the proxy, the last step of a save.
LEMMA ProxyMoves ==
    ASSUME SettingsInv, UNCHANGED <<phase, config>>, phase = "serving",
           NEW a \in Admins, applyProxy(a)
    PROVE  SettingsInv'
<1>1. PICK p : p = resolveOutboundProxy(shared.proxy, save[a].doc)
  OBVIOUS
<1>2. PICK c : c = ConfigureProxy(live.proxy, p.url, p.on)
  OBVIOUS
<1> DEFINE f == IF p.on /\ p.url \notin BadUrls THEN p.url ELSE shared.proxy
           q == [save[a] EXCEPT !.step = @ + 1]
<1>3. /\ Step(a, "proxy") /\ Saving(a) /\ save' = Advance(a)
      /\ live' = [live EXCEPT !.proxy = c] /\ shared' = [shared EXCEPT !.proxy = f]
      /\ UNCHANGED <<stored, seen, mixed>>
  BY <1>1, <1>2 DEF applyProxy, Step
<1>4. save \in [Admins -> SaveRec \cup {NoSave}] /\ shared \in Shared /\ live \in Live
  BY DEF SettingsInv, SettingsTypes
<1>5. save[a] \in SaveRec /\ save[a].step = 7
  BY <1>3, <1>4, StepPosition
<1>6. q \in SaveRec /\ q.step = 8 /\ q.doc = save[a].doc /\ q.kept = save[a].kept
  BY <1>5 DEF SaveRec
<1>7. save' = [save EXCEPT ![a] = q]
  BY <1>3, <1>4 DEF Advance
<1>8. save[a].doc \in Doc /\ shared.proxy \in Urls /\ live.proxy \in GoodUrls \cup {NoUrl}
  BY <1>4, <1>5 DEF SaveRec, Shared, Live
<1>9. /\ p.url \in Urls /\ p.on \in BOOLEAN /\ c \in GoodUrls \cup {NoUrl}
      /\ save[a].doc.on /\ save[a].doc.url \in GoodUrls => c = save[a].doc.url
      /\ ~save[a].doc.on /\ save[a].doc.url # NoUrl => c = NoUrl
  BY <1>1, <1>2, <1>8, ResolvedProxy
<1>10. f \in Urls
  BY <1>8, <1>9
<1> HIDE DEF f, q
<1>11. live' \in Live /\ live'.proxy = c /\ live'.value = live.value
  BY <1>3, <1>4, <1>9 DEF Live
<1>12. shared' \in Shared /\ shared'.value = shared.value
  BY <1>3, <1>4, <1>10 DEF Shared
<1>13. Applying(a) => Applying(a)'
  <2> SUFFICES ASSUME Applying(a) PROVE Applying(a)'
    OBVIOUS
  <2>1. save'[a] = q /\ stored' = stored /\ save[a].doc = stored
    BY <1>3, <1>4, <1>7 DEF Applying
  <2>2. ProxyFollows'
    BY <1>9, <1>11, <2>1 DEF ProxyFollows
  <2> QED
    BY <1>5, <1>6, <1>11, <1>12, <2>1, <2>2 DEF Applying
<1> QED
  BY <1>3, <1>6, <1>7, <1>11, <1>12, <1>13, ApplyMoves

\* The last step: the save that ran alone has told every part.
LEMMA TracerMoves ==
    ASSUME SettingsInv, UNCHANGED <<phase, config>>, phase = "serving",
           NEW a \in Admins, applyTracer(a)
    PROVE  SettingsInv'
<1>1. /\ Step(a, "trace") /\ Saving(a) /\ save' = [save EXCEPT ![a] = NoSave]
      /\ live' = [live EXCEPT !.trace = save[a].doc.trace]
      /\ UNCHANGED <<stored, shared, seen, mixed>>
  BY DEF applyTracer, Step
<1>2. save \in [Admins -> SaveRec \cup {NoSave}] /\ live \in Live /\ stored \in Doc
  BY DEF SettingsInv, SettingsTypes
<1>3. save[a] \in SaveRec /\ save[a].step = 8
  BY <1>1, <1>2, StepPosition
<1>4. save[a].doc.trace \in BOOLEAN
  BY <1>3 DEF SaveRec, Doc
<1>5. /\ live' \in Live /\ live'.value = live.value /\ live'.proxy = live.proxy
      /\ live'.trace = save[a].doc.trace
  BY <1>1, <1>2, <1>4 DEF Live
<1>6. SettingsTypes' /\ FormsOlder'
  BY <1>1, <1>2, <1>5 DEF SettingsInv, SettingsTypes, FormsOlder
<1>7. ~Saving(a)' /\ \A b \in Admins \ {a} : save'[b] = save[b]
  BY <1>1, <1>2, FirstDocType DEF Saving
<1>8. SettingsFollow'
  <2> SUFFICES ASSUME ~mixed
               PROVE  (\A b \in Admins : ~Saving(b)') /\ Applied'
    BY <1>1 DEF SettingsFollow
  <2>1. (\A b \in Admins : Saving(b) => b = a) /\ Applying(a)
    BY <1>1 DEF SettingsInv, SettingsFollow
  <2>2. \A b \in Admins : ~Saving(b)'
    BY <1>7, <2>1 DEF Saving
  <2>3. \A k \in Knobs : live'.value[k] = stored'.value
    BY <1>1, <1>3, <1>5, <2>1 DEF Applying, Knobs
  <2>4. ProxyFollows'
    BY <1>1, <1>3, <1>5, <2>1 DEF Applying, ProxyFollows
  <2>5. save[a].doc = stored
    BY <2>1 DEF Applying
  <2> QED
    BY <1>1, <1>4, <1>5, <2>2, <2>3, <2>4, <2>5 DEF Applied
<1> QED
  BY <1>6, <1>8 DEF SettingsInv

\* A start reads the stored document.
LEMMA LoadMoves ==
    ASSUME SettingsInv, ProcessOK, phase = "admin", phase' = "serving", UNCHANGED config,
           LoadSettings(config.proxy, config.trace)
    PROVE  SettingsInv'
<1>1. PICK p : p = resolveOutboundProxy(config.proxy, stored)
  OBVIOUS
<1>2. PICK c : c = ConfigureProxy(NoUrl, p.url, p.on)
  OBVIOUS
<1>3. /\ shared' = [value |-> stored.value, proxy |-> config.proxy]
      /\ live' = [value |-> [k \in Knobs |-> stored.value], proxy |-> c,
                  trace |-> stored.trace \/ config.trace]
      /\ mixed' = FALSE /\ UNCHANGED <<stored, seen, save>>
  BY <1>1, <1>2 DEF LoadSettings
<1>4. config.proxy \in Urls /\ config.trace \in BOOLEAN
  BY DEF ProcessOK, Config
<1>5. /\ stored \in Doc /\ stored.value \in Values /\ stored.trace \in BOOLEAN
      /\ \A a \in Admins : ~Saving(a)
  BY DEF SettingsInv, SettingsTypes, SettingsFollow, Doc
<1>6. /\ c \in GoodUrls \cup {NoUrl}
      /\ stored.on /\ stored.url \in GoodUrls => c = stored.url
      /\ ~stored.on /\ stored.url # NoUrl => c = NoUrl
  BY <1>1, <1>2, <1>4, <1>5, ResolvedProxy
<1>7. shared' \in Shared /\ live' \in Live
  BY <1>3, <1>4, <1>5, <1>6 DEF Shared, Live
<1>8. SettingsTypes' /\ FormsOlder'
  BY <1>3, <1>7 DEF SettingsInv, SettingsTypes, FormsOlder
<1>9. Applied'
  BY <1>3, <1>4, <1>5, <1>6 DEF Applied, ProxyFollows
<1>10. \A a \in Admins : ~Saving(a)'
  BY <1>3, <1>5 DEF Saving
<1> QED
  BY <1>8, <1>9, <1>10 DEF SettingsInv, SettingsFollow

\* A process that stops forgets everything but the table.
LEMMA DropMoves ==
    ASSUME SettingsInv, phase' = "down", DropSettings
    PROVE  SettingsInv'
<1>1. save' = [a \in Admins |-> NoSave] /\ UNCHANGED <<stored, shared, live, seen, mixed>>
  BY DEF DropSettings
<1>2. SettingsTypes' /\ FormsOlder'
  BY <1>1 DEF SettingsInv, SettingsTypes, FormsOlder
<1>3. \A a \in Admins : ~Saving(a)'
  BY <1>1, FirstDocType DEF Saving
<1> QED
  BY <1>2, <1>3 DEF SettingsInv, SettingsFollow

\* Every step keeps the settings part; only a PUT writes the document, over the
\* one its author had loaded.
LEMMA SettingsStep ==
    ASSUME ProcessOK, SettingsInv, Next
    PROVE  /\ SettingsInv'
           /\ stored' # stored => \E a \in Admins : seen[a] = stored /\ seen'[a] = stored'
<1>1. CASE Open \/ BootstrapServeAdmin \/ ServeRefuses \/ EditConfig
  <2>1. UNCHANGED settingsVars /\ phase # "serving" /\ phase' # "serving"
    BY <1>1 DEF Open, BootstrapServeAdmin, ServeRefuses, EditConfig
  <2> QED
    BY <2>1, SettingsStill DEF settingsVars
<1>2. CASE Command \/ KeyHandler
  <2>1. UNCHANGED settingsVars /\ UNCHANGED <<phase, config>>
    BY <1>2 DEF Command, KeyHandler
  <2> QED
    BY <2>1, SettingsStill DEF settingsVars
<1>3. CASE Serve
  <2>1. /\ phase = "admin" /\ phase' = "serving" /\ UNCHANGED config
        /\ LoadSettings(config.proxy, config.trace)
    BY <1>3 DEF Serve
  <2>2. UNCHANGED stored
    BY <2>1 DEF LoadSettings
  <2> QED
    BY <2>1, <2>2, LoadMoves
<1>4. CASE Stop
  <2>1. phase' = "down" /\ DropSettings
    BY <1>4 DEF Stop
  <2>2. UNCHANGED stored
    BY <2>1 DEF DropSettings
  <2> QED
    BY <2>1, <2>2, DropMoves
<1>5. ASSUME NEW a \in Admins, SettingsHandler(a)
      PROVE  /\ SettingsInv'
             /\ stored' # stored => \E b \in Admins : seen[b] = stored /\ seen'[b] = stored'
  <2>1. phase = "serving" /\ UNCHANGED <<phase, config>>
    BY <1>5 DEF SettingsHandler
  <2>2. CASE GetSettings(a)
    BY <2>1, <2>2, GetSettingsMoves DEF GetSettings
  <2>3. CASE \E b \in Bodies : PutSettings(a, b)
    BY <2>1, <2>3, PutSettingsMoves
  <2>4. CASE applyManagedSettings(a)
    BY <2>1, <2>4, SharedMoves DEF applyManagedSettings
  <2>5. CASE Configure(a)
    <3>1. UNCHANGED stored
      BY <2>5 DEF Configure
    <3> QED
      BY <2>1, <2>5, <3>1, ConfigureMoves
  <2>6. CASE applyProxy(a)
    <3>1. UNCHANGED stored
      BY <2>6 DEF applyProxy
    <3> QED
      BY <2>1, <2>6, <3>1, ProxyMoves
  <2>7. CASE applyTracer(a)
    BY <2>1, <2>7, TracerMoves DEF applyTracer
  <2> QED
    BY <1>5, <2>2, <2>3, <2>4, <2>5, <2>6, <2>7 DEF SettingsHandler, ApplySettings
<1>6. ASSUME NEW e \in Editors, ModelHandler(e)
      PROVE  SettingsInv' /\ stored' = stored
  <2>1. UNCHANGED settingsVars /\ UNCHANGED <<phase, config>>
    BY <1>6 DEF ModelHandler
  <2> QED
    BY <2>1, SettingsStill DEF settingsVars
<1> QED
  BY <1>1, <1>2, <1>3, <1>4, <1>5, <1>6 DEF Next

-----------------------------------------------------------------------------
(* The secrets of the file.                                                *)

\* What one step may do to the administrator and to the migrated key.
Kept ==
    /\ admin # NoSecret => admin' = admin
    /\ legacy # NoKey => legacy'.hash = legacy.hash
    /\ legacy.revoked => legacy'.revoked

\* Secrets stay as they are outside of the start and the commands.
LEMMA SecurityStill ==
    ASSUME SecurityInv, UNCHANGED securityVars,
           \/ UNCHANGED <<phase, config>>
           \/ phase' \in {"down", "opened"}
    PROVE  SecurityInv' /\ Kept
BY DEF SecurityInv, SecurityTypes, MarkersTrue, securityVars, Password, Kept

\* Every step keeps the security invariant and every secret that is set.
LEMMA SecurityStep ==
    ASSUME ProcessOK, SecurityInv, Next
    PROVE  SecurityInv' /\ Kept
<1> USE SecurityBootstrapAssumption
<1>0. /\ admin \in Strong \cup {NoSecret} /\ markers \subseteq Markers
      /\ legacy \in [hash : Keys \cup {NoSecret}, revoked : BOOLEAN]
      /\ config.key \in Keys \cup {NoSecret}
  BY DEF SecurityInv, SecurityTypes, ProcessOK, Config
<1>1. CASE Open \/ ServeRefuses \/ EditConfig \/ Stop
  <2>1. UNCHANGED securityVars /\ phase' \in {"down", "opened"}
    BY <1>1 DEF Open, ServeRefuses, EditConfig, Stop
  <2> QED
    BY <2>1, SecurityStill
<1>2. CASE BootstrapServeAdmin
  <2>1. /\ phase' = "admin" /\ UNCHANGED config /\ BootstrapLegacyAdmin(Password)
        /\ Password' = Password
    BY <1>2 DEF BootstrapServeAdmin, Password
  <2>2. CASE Password \in Strong /\ "legacy_admin" \notin markers
    <3>1. /\ admin' = (IF admin = NoSecret THEN Password ELSE admin) /\ legacy' = legacy
          /\ markers' = markers \cup {"legacy_admin"}
      BY <2>1, <2>2 DEF BootstrapLegacyAdmin, Insert
    <3>2. admin' \in Strong /\ admin' # NoSecret
      BY <1>0, <2>2, <3>1
    <3>3. SecurityTypes'
      BY <1>0, <3>1, <3>2 DEF SecurityTypes, Markers
    <3>4. MarkersTrue'
      BY <2>1, <3>1, <3>2 DEF SecurityInv, MarkersTrue
    <3> QED
      BY <1>0, <3>1, <3>3, <3>4 DEF SecurityInv, Kept
  <2>3. CASE ~(Password \in Strong /\ "legacy_admin" \notin markers)
    <3>1. UNCHANGED <<admin, markers, legacy>>
      BY <2>1, <2>3 DEF BootstrapLegacyAdmin, securityVars
    <3>2. MarkersTrue'
      BY <2>1, <2>3, <3>1 DEF SecurityInv, MarkersTrue
    <3> QED
      BY <3>1, <3>2 DEF SecurityInv, SecurityTypes, Kept
  <2> QED
    BY <2>2, <2>3
<1>3. CASE Serve
  <2>1. /\ phase = "admin" /\ UNCHANGED config /\ BootstrapLegacyClientKey(config.key)
        /\ Password' = Password
    BY <1>3 DEF Serve, Password
  <2>2. CASE config.key = NoSecret
    <3>1. UNCHANGED <<admin, markers, legacy>>
      BY <2>1, <2>2 DEF BootstrapLegacyClientKey, securityVars
    <3>2. MarkersTrue'
      BY <2>1, <2>2, <3>1 DEF SecurityInv, MarkersTrue
    <3> QED
      BY <3>1, <3>2 DEF SecurityInv, SecurityTypes, Kept
  <2>3. CASE config.key # NoSecret
    <3>1. /\ legacy' = Migrated(config.key) /\ markers' = markers \cup {"client_key"}
          /\ admin' = admin
      BY <2>1, <2>3 DEF BootstrapLegacyClientKey
    <3>2. /\ legacy # NoKey => legacy' = legacy
          /\ legacy = NoKey => legacy' = [hash |-> config.key, revoked |-> FALSE]
      BY <3>1 DEF Migrated, SecurityInv, MarkersTrue
    <3>3. legacy' # NoKey /\ legacy' \in [hash : Keys \cup {NoSecret}, revoked : BOOLEAN]
      <4>1. CASE legacy # NoKey
        BY <1>0, <3>2, <4>1
      <4>2. CASE legacy = NoKey
        <5>1. legacy' = [hash |-> config.key, revoked |-> FALSE] /\ legacy'.hash = config.key
          BY <3>2, <4>2
        <5>2. NoKey.hash = NoSecret
          BY DEF NoKey
        <5>3. legacy' # NoKey
          BY <2>3, <5>1, <5>2
        <5> QED
          BY <1>0, <5>1, <5>3
      <4> QED
        BY <4>1, <4>2
    <3>4. SecurityTypes'
      BY <1>0, <3>1, <3>3 DEF SecurityTypes, Markers
    <3>5. legacy'.hash = config.key
      BY <2>1, <2>3, <3>2 DEF BootstrapLegacyClientKey, Differs
    <3>6. MarkersTrue'
      BY <2>1, <3>1, <3>3, <3>5 DEF SecurityInv, MarkersTrue
    <3>7. Kept
      BY <3>1, <3>2 DEF Kept, NoKey
    <3> QED
      BY <3>4, <3>6, <3>7 DEF SecurityInv
  <2> QED
    BY <2>2, <2>3
<1>4. CASE Command
  <2>1. PICK p \in Strong : BootstrapAdmin(p)
    BY <1>4 DEF Command
  <2>2. /\ admin' = (IF admin = NoSecret THEN p ELSE admin) /\ legacy' = legacy
        /\ markers' = markers \cup {"admin"} /\ UNCHANGED <<phase, config>>
    BY <1>4, <2>1 DEF Command, BootstrapAdmin, Insert
  <2>3. admin' \in Strong /\ admin' # NoSecret
    BY <1>0, <2>2
  <2>4. SecurityTypes'
    BY <1>0, <2>2, <2>3 DEF SecurityTypes, Markers
  <2>5. MarkersTrue'
    BY <2>2, <2>3 DEF SecurityInv, MarkersTrue
  <2> QED
    BY <1>0, <2>2, <2>4, <2>5 DEF SecurityInv, Kept
<1>5. CASE KeyHandler
  <2>1. /\ legacy # NoKey /\ legacy' = [legacy EXCEPT !.revoked = TRUE]
        /\ UNCHANGED <<admin, markers, phase, config>>
    BY <1>5 DEF KeyHandler, RevokeLegacyKey
  <2>2. /\ legacy' \in [hash : Keys \cup {NoSecret}, revoked : BOOLEAN]
        /\ legacy'.hash = legacy.hash /\ legacy'.revoked
    BY <1>0, <2>1
  <2>3. legacy' # NoKey
    BY <2>2 DEF NoKey
  <2>4. Password' = Password
    BY <2>1 DEF Password
  <2>5. MarkersTrue'
    BY <2>1, <2>2, <2>3, <2>4 DEF SecurityInv, MarkersTrue
  <2> QED
    BY <1>0, <2>1, <2>2, <2>5 DEF SecurityInv, SecurityTypes, Kept
<1>6. CASE \/ \E a \in Admins : SettingsHandler(a)
           \/ \E e \in Editors : ModelHandler(e)
  <2>1. UNCHANGED securityVars /\ UNCHANGED <<phase, config>>
    BY <1>6 DEF SettingsHandler, ModelHandler
  <2> QED
    BY <2>1, SecurityStill
<1> QED
  BY <1>1, <1>2, <1>3, <1>4, <1>5, <1>6 DEF Next

-----------------------------------------------------------------------------
(* The model registry.                                                     *)

\* The order of the numbers is well-founded: a set that is not empty has a least one.
LEMMA LeastNumber ==
    ASSUME NEW S \in SUBSET Nat, S # {}
    PROVE  \E n \in S : \A m \in S : n <= m
<1> DEFINE R == {p \in Nat \X Nat : p[1] < p[2]}
<1>1. IsWellFoundedOn(R, Nat)
  BY NatLessThanWellFounded, Zenon DEF OpToRel
<1>2. PICK n \in S : \A m \in S : <<m, n>> \notin R
  <2> HIDE DEF R
  <2> QED
    BY <1>1, WFMin
<1>3. ASSUME NEW m \in S PROVE n <= m
  <2>1. <<m, n>> \notin R
    BY <1>2
  <2>2. m \in Nat /\ n \in Nat
    OBVIOUS
  <2>3. ~(m < n)
    BY <2>1, <2>2
  <2> QED
    BY <2>2, <2>3
<1> QED
  BY <1>3

\* Positions that are bounded have a last one, the least of their bounds.
LEMMA LastPosition ==
    ASSUME NEW k \in Nat, NEW S \in SUBSET (1 .. k), S # {}
    PROVE  \E i \in S : \A j \in S : j <= i
<1> DEFINE B == {n \in Nat : \A j \in S : j <= n}
<1>1. k \in B
  OBVIOUS
<1>2. PICK i \in B : \A n \in B : i <= n
  BY <1>1, LeastNumber
<1>3. i \in Nat /\ \A j \in S : j <= i /\ j \in Nat /\ j >= 1
  BY <1>2
<1>4. PICK s \in S : TRUE
  OBVIOUS
<1>5. i >= 1 /\ i - 1 \in Nat
  BY <1>3, <1>4
<1>6. i - 1 \notin B
  BY <1>2, <1>5
<1>7. PICK j \in S : ~(j <= i - 1)
  BY <1>5, <1>6
<1>8. j = i
  BY <1>3, <1>7
<1> QED
  BY <1>3, <1>8

\* Seeds, normalised rows and patched rows are rows.
LEMMA RowTypes ==
    /\ \A r \in Row : r # Absent
    /\ \A id \in Seeds : SeedRow(id) \in Row
    /\ \A r \in Row, id \in Ids : Normalized(id, [r EXCEPT !.source = "managed"]) \in Row
    /\ \A r \in Row, v \in BOOLEAN : apply(r, "enabled", v) \in Row
    /\ \A r \in Row, v \in Ids \cup {NoName} : apply(r, "alias", v) \in Row
<1>1. \A r \in Row : r # Absent
  <2>1. Absent.source = "absent"
    BY DEF Absent
  <2>2. \A r \in Row : r.source # "absent"
    BY DEF Row
  <2> QED
    BY <2>1, <2>2
<1>2. \A id \in Seeds : SeedRow(id) \in Row
  BY ModelRegistryAssumption DEF SeedRow, Row
<1>3. ASSUME NEW r \in Row, NEW id \in Ids
      PROVE  Normalized(id, [r EXCEPT !.source = "managed"]) \in Row
  <2> DEFINE s == [r EXCEPT !.source = "managed"]
             x == IF s.alias = id THEN NoName ELSE s.alias
  <2>1. s \in Row
    BY DEF Row
  <2> HIDE DEF s
  <2>2. x \in Ids \cup {NoName}
    BY <2>1 DEF Row
  <2> HIDE DEF x
  <2>3. [s EXCEPT !.alias = x] \in Row
    BY <2>1, <2>2 DEF Row
  <2> QED
    BY <2>3 DEF Normalized, s, x
<1>4. ASSUME NEW r \in Row, NEW v \in BOOLEAN PROVE apply(r, "enabled", v) \in Row
  BY DEF Row, apply
<1>5. ASSUME NEW r \in Row, NEW v \in Ids \cup {NoName} PROVE apply(r, "alias", v) \in Row
  BY DEF Row, apply
<1> QED
  BY <1>1, <1>2, <1>3, <1>4, <1>5

\* The list of a table is a table with the same enabled rows and no other.
LEMMA ListedRows ==
    ASSUME NEW t \in Table
    PROVE  /\ Listed(t) \in Table
           /\ Enabled(Listed(t)) = Enabled(t)
           /\ \A id \in Enabled(t) : id \in Ids /\ t[id] \in Row /\ Listed(t)[id] = t[id]
<1>1. \A id \in Enabled(t) : id \in Ids /\ t[id] \in Row /\ t[id].enabled /\ Listed(t)[id] = t[id]
  BY DEF Enabled, Exists, Table, Listed
<1>2. \A id \in Ids \ Enabled(t) : Listed(t)[id] = Absent
  BY DEF Listed
<1>3. Listed(t) = [id \in Ids |-> Listed(t)[id]]
  BY DEF Listed
<1>4. \A id \in Ids : Listed(t)[id] \in Row \cup {Absent}
  BY <1>1, <1>2
<1>5. Listed(t) \in Table
  BY <1>3, <1>4 DEF Table
<1>6. \A id \in Ids : id \in Enabled(Listed(t)) <=> id \in Enabled(t)
  BY <1>1, <1>2, RowTypes DEF Enabled, Exists
<1>7. Enabled(Listed(t)) = Enabled(t)
  BY <1>6 DEF Enabled
<1> QED
  BY <1>1, <1>5, <1>7

\* The names an enabled row answers to.
Names(t, id) == {id, t[id].alias} \ {NoName}

\* A catalog routes a table: exactly the names of its enabled rows, each to the
\* target of a row that has it; the default models when none is enabled.
Routes(t, c) ==
    IF Enabled(t) = {} THEN c = DefaultCatalog
    ELSE /\ DOMAIN c = UNION {Names(t, id) : id \in Enabled(t)}
         /\ \A n \in DOMAIN c : \E id \in Enabled(t) : n \in Names(t, id) /\ c[n] = t[id].to

\* The catalog built from the list of a table routes the table.
LEMMA CatalogBuilt ==
    ASSUME NEW t \in Table, NEW c, c = BuildCatalog(Listed(t))
    PROVE  Routes(t, c)
<1> DEFINE l == Listed(t)
           names == {n \in Ids : Speaks(l, n) # {}}
           Top(S) == CHOOSE i \in S : \A j \in S : j <= i
<1>1. /\ Enabled(l) = Enabled(t)
      /\ \A id \in Enabled(t) : id \in Ids /\ t[id] \in Row /\ l[id] = t[id]
  BY ListedRows
<1> HIDE DEF l
<1>2. \A n : Speaks(l, n) =
                {i \in DOMAIN ModelIds :
                   ModelIds[i] \in Enabled(t) /\ n \in {ModelIds[i], t[ModelIds[i]].alias}}
  BY <1>1 DEF Speaks
<1>3. c = IF names = {} THEN DefaultCatalog
          ELSE [n \in names |-> l[ModelIds[Top(Speaks(l, n))]].to]
  <2>1. c = BuildCatalog(l)
    BY DEF l
  <2> QED
    BY <2>1 DEF BuildCatalog
<1>4. ModelIds \in Seq(Ids) /\ NoName \notin Ids
  BY ModelRegistryAssumption
<1>5. Len(ModelIds) \in Nat /\ DOMAIN ModelIds = 1 .. Len(ModelIds)
  BY <1>4, LenProperties
<1>6. \A n \in names : n \in Ids /\ Speaks(l, n) # {}
  OBVIOUS
<1>7. ASSUME NEW n \in names
      PROVE  \E id \in Enabled(t) : n \in Names(t, id) /\ l[ModelIds[Top(Speaks(l, n))]].to = t[id].to
  <2>1. PICK S : S = Speaks(l, n)
    OBVIOUS
  <2>2. S \in SUBSET DOMAIN ModelIds /\ S # {} /\ n # NoName
    BY <1>2, <1>4, <1>6, <2>1
  <2>3. \E i \in S : \A j \in S : j <= i
    BY <1>5, <2>2, LastPosition
  <2>4. Top(S) \in S
    BY <2>3
  <2> HIDE DEF Top
  <2>5. /\ ModelIds[Top(S)] \in Enabled(t)
        /\ n \in {ModelIds[Top(S)], t[ModelIds[Top(S)]].alias}
    BY <1>2, <2>1, <2>4
  <2> QED
    BY <1>1, <2>1, <2>2, <2>5 DEF Names
<1>8. ASSUME NEW id \in Enabled(t), NEW n \in Names(t, id) PROVE n \in names
  <2>1. PICK i \in DOMAIN ModelIds : id = ModelIds[i]
    BY <1>1 DEF Ids
  <2>2. t[id].alias \in Ids \cup {NoName}
    BY <1>1 DEF Row
  <2>3. n \in Ids /\ n \in {id, t[id].alias}
    BY <1>1, <2>2 DEF Names
  <2>4. i \in Speaks(l, n)
    BY <1>2, <2>1, <2>3
  <2> QED
    BY <2>3, <2>4
<1> HIDE DEF names, Top
<1>9. CASE Enabled(t) = {}
  <2>1. names = {}
    BY <1>7, <1>9
  <2> QED
    BY <1>3, <1>9, <2>1 DEF Routes
<1>10. CASE Enabled(t) # {}
  <2>1. PICK id \in Enabled(t) : TRUE
    BY <1>10
  <2>2. id \in Names(t, id)
    BY <1>1, <1>4 DEF Names
  <2>3. names # {}
    BY <1>8, <2>2
  <2>4. c = [n \in names |-> l[ModelIds[Top(Speaks(l, n))]].to]
    BY <1>3, <2>3
  <2>5. names = UNION {Names(t, d) : d \in Enabled(t)}
    <3>1. \A n \in names : \E d \in Enabled(t) : n \in Names(t, d)
      BY <1>7
    <3>2. \A n : (\E d \in Enabled(t) : n \in Names(t, d)) => n \in names
      BY <1>8
    <3> QED
      BY <3>1, <3>2
  <2> QED
    BY <1>7, <1>10, <2>4, <2>5 DEF Routes
<1> QED
  BY <1>9, <1>10

\* The registry stays sound outside of model edits and of the start.
LEMMA RegistryStill ==
    ASSUME RegistryInv, UNCHANGED registryVars,
           \/ UNCHANGED phase
           \/ phase # "down" /\ phase # "serving" /\ phase' # "serving"
    PROVE  RegistryInv'
BY DEF RegistryInv, RegistryTypes, CatalogFollow, Rebuilding, registryVars, At

\* Seeding keeps every row that is there, and leaves no seed out.
LEMMA SeedingKeeps ==
    ASSUME NEW t \in Table
    PROVE  /\ SeedModels(t) \in Table
           /\ \A id \in Seeds : Exists(SeedModels(t), id)
           /\ \A id \in Ids : Exists(t, id) => SeedModels(t)[id] = t[id]
           /\ (\A id \in Seeds : Exists(t, id)) => SeedModels(t) = t
<1>1. \A id \in Ids : SeedModels(t)[id] =
                        IF id \in Seeds /\ ~Exists(t, id) THEN SeedRow(id) ELSE t[id]
  BY DEF SeedModels
<1>2. SeedModels(t) \in Table
  BY RowTypes DEF SeedModels, Table
<1>3. \A id \in Seeds : Exists(SeedModels(t), id)
  BY <1>1, RowTypes, ModelRegistryAssumption DEF Exists
<1>4. (\A id \in Seeds : Exists(t, id)) => SeedModels(t) = t
  BY DEF SeedModels, Table
<1> QED
  BY <1>1, <1>2, <1>3, <1>4

\* A row written by a handler; unless it crossed another one, the handler is
\* alone in having a catalog to rebuild.
LEMMA UpsertMoves ==
    ASSUME RegistryInv, UNCHANGED phase, phase = "serving", NEW e \in Editors, NEW id \in Ids,
           NEW row \in Row, ~At(e, "list"), Upsert(e, id, row)
    PROVE  RegistryInv' /\ edit' # edit
<1>1. PICK r : r = Normalized(id, [row EXCEPT !.source = "managed"])
  OBVIOUS
<1>2. r \in Row
  BY <1>1, RowTypes
<1>3. /\ models' = [models EXCEPT ![id] = r]
      /\ crossed' = \E f \in Editors \ {e} : Rebuilding(f)
      /\ edit' = [edit EXCEPT ![e] = [step |-> "list"]]
  BY <1>1 DEF Upsert, Become, Rebuilding
<1>4. models \in Table /\ edit \in [Editors -> EditRec]
  BY DEF RegistryInv, RegistryTypes
<1>5. crossed' \in BOOLEAN
  BY <1>3
<1>6. RegistryTypes'
  BY <1>2, <1>3, <1>4, <1>5 DEF RegistryTypes, Table, EditRec
<1>7. \A s \in Seeds : Exists(models', s)
  BY <1>2, <1>3, <1>4, RowTypes, ModelRegistryAssumption
     DEF RegistryInv, CatalogFollow, Exists, Table
<1>8. edit'[e] = [step |-> "list"] /\ \A f \in Editors \ {e} : edit'[f] = edit[f]
  BY <1>3, <1>4
<1>9. edit'[e].step = "list"
  BY <1>8
<1>10. Rebuilding(e)' /\ ~At(e, "assign")' /\ edit' # edit
  BY <1>9 DEF Rebuilding, At
<1>11. ~crossed' => \A f \in Editors \ {e} : ~Rebuilding(f)'
  BY <1>3, <1>8 DEF Rebuilding, At
<1>12. CatalogFollow'
  BY <1>7, <1>10, <1>11 DEF CatalogFollow, Rebuilding
<1> QED
  BY <1>6, <1>10, <1>12 DEF RegistryInv

\* Writing a patched row.
LEMMA PatchMoves ==
    ASSUME RegistryInv, UNCHANGED phase, phase = "serving", NEW e \in Editors, NEW id \in Ids,
           PatchModel(e, id)
    PROVE  RegistryInv'
<1>1. PICK q : q = [step |-> "patch", id |-> id, row |-> models[id]]
  OBVIOUS
<1>2. /\ At(e, "idle") /\ Exists(models, id) /\ edit' = [edit EXCEPT ![e] = q]
      /\ UNCHANGED <<models, catalog, crossed>>
  BY <1>1 DEF PatchModel, Become
<1>3. models \in Table /\ edit \in [Editors -> EditRec]
  BY DEF RegistryInv, RegistryTypes
<1>4. models[id] \in Row
  BY <1>2, <1>3 DEF Table, Exists
<1>5. q \in EditRec /\ q.step = "patch"
  BY <1>1, <1>4 DEF EditRec
<1>6. RegistryTypes'
  BY <1>2, <1>3, <1>5 DEF RegistryInv, RegistryTypes
<1>7. edit'[e] = q /\ \A f \in Editors \ {e} : edit'[f] = edit[f]
  BY <1>2, <1>3
<1>8. /\ ~Rebuilding(e) /\ ~Rebuilding(e)' /\ ~At(e, "assign")'
      /\ \A f \in Editors \ {e} : /\ Rebuilding(f)' <=> Rebuilding(f)
                                  /\ At(f, "assign")' <=> At(f, "assign")
  BY <1>2, <1>5, <1>7 DEF Rebuilding, At
<1>9. CatalogFollow'
  BY <1>2, <1>7, <1>8 DEF RegistryInv, CatalogFollow
<1> QED
  BY <1>6, <1>9 DEF RegistryInv

\* Listing the rows and assigning the catalog change no row.
LEMMA RefreshMoves ==
    ASSUME RegistryInv, UNCHANGED phase, phase = "serving", NEW e \in Editors,
           refreshModelCatalog(e)
    PROVE  RegistryInv' /\ models' = models
<1>1. models \in Table /\ edit \in [Editors -> EditRec]
  BY DEF RegistryInv, RegistryTypes
<1>2. CASE ListModels(e)
  <2>1. PICK q : q = [step |-> "assign", rows |-> Listed(models)]
    OBVIOUS
  <2>2. /\ At(e, "list") /\ edit' = [edit EXCEPT ![e] = q]
        /\ UNCHANGED <<models, catalog, crossed>>
    BY <1>2, <2>1 DEF ListModels, Become
  <2>3. q \in EditRec /\ q.step = "assign" /\ q.rows = Listed(models)
    BY <1>1, <2>1, ListedRows DEF EditRec
  <2>4. RegistryTypes'
    BY <1>1, <2>2, <2>3 DEF RegistryInv, RegistryTypes
  <2>5. edit'[e] = q /\ \A f \in Editors \ {e} : edit'[f] = edit[f]
    BY <1>1, <2>2
  <2>6. /\ Rebuilding(e) /\ Rebuilding(e)'
        /\ \A f \in Editors \ {e} : /\ Rebuilding(f)' <=> Rebuilding(f)
                                    /\ At(f, "assign")' <=> At(f, "assign")
    BY <2>2, <2>3, <2>5 DEF Rebuilding, At
  <2>7. CatalogFollow'
    BY <2>2, <2>3, <2>5, <2>6 DEF RegistryInv, CatalogFollow
  <2> QED
    BY <2>2, <2>4, <2>7 DEF RegistryInv
<1>3. CASE AssignCatalog(e)
  <2>1. /\ At(e, "assign") /\ edit' = [edit EXCEPT ![e] = NoEdit]
        /\ catalog' = BuildCatalog(edit[e].rows) /\ UNCHANGED <<models, crossed>>
    BY <1>3 DEF AssignCatalog, Become
  <2>2. RegistryTypes'
    BY <1>1, <2>1 DEF RegistryInv, RegistryTypes, EditRec
  <2>3. edit'[e] = NoEdit /\ \A f \in Editors \ {e} : edit'[f] = edit[f]
    BY <1>1, <2>1
  <2>4. /\ Rebuilding(e) /\ ~Rebuilding(e)' /\ ~At(e, "assign")'
        /\ \A f \in Editors \ {e} : /\ Rebuilding(f)' <=> Rebuilding(f)
                                    /\ At(f, "assign")' <=> At(f, "assign")
    BY <2>1, <2>3 DEF Rebuilding, At, NoEdit
  <2>5. ~crossed => edit[e].rows = Listed(models)
    BY <2>1 DEF RegistryInv, CatalogFollow
  <2>6. ~crossed => catalog' = BuildCatalog(Listed(models))
    BY <2>1, <2>5
  <2>7. CatalogFollow'
    BY <2>1, <2>3, <2>4, <2>6 DEF RegistryInv, CatalogFollow
  <2> QED
    BY <2>1, <2>2, <2>7 DEF RegistryInv
<1> QED
  BY <1>2, <1>3 DEF refreshModelCatalog

\* Every step keeps the registry part; a row that is there changes only when a
\* handler moves on.
LEMMA RegistryStep ==
    ASSUME ProcessOK, RegistryInv, Next
    PROVE  /\ RegistryInv'
           /\ \A id \in Ids : Exists(models, id) /\ models'[id] # models[id]
                 => phase = "serving" /\ edit' # edit
<1>0. models \in Table /\ edit \in [Editors -> EditRec]
  BY DEF RegistryInv, RegistryTypes
<1>1. CASE Open
  <2>1. /\ phase = "down" /\ phase' = "opened" /\ models' = SeedModels(models)
        /\ UNCHANGED <<catalog, edit, crossed>>
    BY <1>1 DEF Open
  <2>2. RegistryTypes'
    BY <1>0, <2>1, SeedingKeeps DEF RegistryInv, RegistryTypes
  <2>3. CatalogFollow'
    BY <1>0, <2>1, SeedingKeeps DEF RegistryInv, CatalogFollow
  <2> QED
    BY <1>0, <2>1, <2>2, <2>3, SeedingKeeps DEF RegistryInv
<1>2. CASE Command
  <2>1. models' = SeedModels(models) /\ UNCHANGED <<phase, catalog, edit, crossed>>
    BY <1>2 DEF Command
  <2>2. CASE phase # "down"
    <3>1. models' = models
      BY <1>0, <2>1, <2>2, SeedingKeeps DEF RegistryInv, CatalogFollow
    <3> QED
      BY <2>1, <3>1, RegistryStill DEF registryVars
  <2>3. CASE phase = "down"
    <3>1. RegistryTypes'
      BY <1>0, <2>1, SeedingKeeps DEF RegistryInv, RegistryTypes
    <3>2. CatalogFollow'
      BY <2>1, <2>3 DEF RegistryInv, CatalogFollow
    <3> QED
      BY <1>0, <2>1, <3>1, <3>2, SeedingKeeps DEF RegistryInv
  <2> QED
    BY <2>2, <2>3
<1>3. CASE BootstrapServeAdmin \/ ServeRefuses
  <2>1. UNCHANGED registryVars /\ phase \in {"opened", "admin"} /\ phase' # "serving"
    BY <1>3 DEF BootstrapServeAdmin, ServeRefuses
  <2> QED
    BY <2>1, RegistryStill DEF registryVars
<1>4. CASE Serve
  <2>1. /\ phase = "admin" /\ phase' = "serving"
        /\ catalog' = BuildCatalog(Listed(models)) /\ crossed' = FALSE
        /\ UNCHANGED <<models, edit>>
    BY <1>4 DEF Serve, LoadCatalog
  <2>2. RegistryTypes'
    BY <1>0, <2>1 DEF RegistryTypes
  <2>3. \A e \in Editors : edit[e] = NoEdit
    BY <2>1 DEF RegistryInv, CatalogFollow
  <2>4. \A e \in Editors : edit[e].step = "idle"
    BY <2>3 DEF NoEdit
  <2>5. \A e \in Editors : ~Rebuilding(e)' /\ ~At(e, "assign")'
    BY <2>1, <2>4 DEF Rebuilding, At
  <2>6. CatalogFollow'
    BY <2>1, <2>5 DEF RegistryInv, CatalogFollow
  <2> QED
    BY <2>1, <2>2, <2>6 DEF RegistryInv
<1>5. CASE Stop
  <2>1. /\ phase' = "down" /\ edit' = [e \in Editors |-> NoEdit]
        /\ UNCHANGED <<models, catalog, crossed>>
    BY <1>5 DEF Stop, DropEdits
  <2>2. RegistryTypes'
    BY <1>0, <2>1 DEF RegistryInv, RegistryTypes, EditRec
  <2>3. CatalogFollow'
    BY <2>1 DEF CatalogFollow
  <2> QED
    BY <2>1, <2>2, <2>3 DEF RegistryInv
<1>6. CASE EditConfig \/ KeyHandler \/ \E a \in Admins : SettingsHandler(a)
  <2>1. UNCHANGED registryVars /\ UNCHANGED phase
    BY <1>6 DEF EditConfig, KeyHandler, SettingsHandler
  <2> QED
    BY <2>1, RegistryStill DEF registryVars
<1>7. ASSUME NEW e \in Editors, ModelHandler(e)
      PROVE  RegistryInv' /\ phase = "serving" /\ (models' # models => edit' # edit)
  <2>1. phase = "serving" /\ UNCHANGED phase
    BY <1>7 DEF ModelHandler
  <2>2. ASSUME NEW id \in Ids, NEW to \in Targets, NEW name \in Ids \cup {NoName},
               PutModel(e, id, [source |-> "managed", enabled |-> TRUE, to |-> to,
                                alias |-> name])
        PROVE  RegistryInv' /\ edit' # edit
    <3>1. PICK r : r = [source |-> "managed", enabled |-> TRUE, to |-> to, alias |-> name]
      OBVIOUS
    <3>2. r \in Row
      BY <3>1 DEF Row
    <3>3. At(e, "idle") /\ Upsert(e, id, r)
      BY <2>2, <3>1 DEF PutModel
    <3>4. ~At(e, "list")
      BY <3>3 DEF At
    <3> QED
      BY <2>1, <3>2, <3>3, <3>4, UpsertMoves
  <2>3. ASSUME NEW id \in Ids, PatchModel(e, id)
        PROVE  RegistryInv' /\ models' = models
    BY <2>1, <2>3, PatchMoves DEF PatchModel
  <2>4. ASSUME NEW field, NEW v, WritePatch(e, field, v),
               \/ field = "enabled" /\ v \in BOOLEAN
               \/ field = "alias" /\ v \in Ids \cup {NoName}
        PROVE  RegistryInv' /\ edit' # edit
    <3>1. edit[e].step = "patch" /\ edit[e] \in EditRec
      BY <1>0, <2>4 DEF WritePatch, At
    <3>2. edit[e] \in [step : {"patch"}, id : Ids, row : Row]
      BY <3>1 DEF EditRec, NoEdit
    <3>3. edit[e].id \in Ids /\ edit[e].row \in Row
      BY <3>2
    <3>4. PICK r : r = apply(edit[e].row, field, v)
      OBVIOUS
    <3>5. r \in Row
      BY <2>4, <3>3, <3>4, RowTypes
    <3>6. Upsert(e, edit[e].id, r) /\ ~At(e, "list")
      BY <2>4, <3>1, <3>4 DEF WritePatch, At
    <3> QED
      BY <2>1, <3>3, <3>5, <3>6, UpsertMoves
  <2>5. CASE refreshModelCatalog(e)
    BY <2>1, <2>5, RefreshMoves
  <2> QED
    BY <1>7, <2>1, <2>2, <2>3, <2>4, <2>5 DEF ModelHandler
<1> QED
  BY <1>1, <1>2, <1>3, <1>4, <1>5, <1>6, <1>7 DEF Next

-----------------------------------------------------------------------------
(* The whole.                                                              *)

\* The phase and the file keep their types.
LEMMA ProcessStep ==
    ASSUME ProcessOK, Next
    PROVE  ProcessOK'
<1>1. CASE EditConfig
  <2>1. config \in Config /\ phase' = phase
    BY <1>1 DEF ProcessOK, EditConfig
  <2>2. CASE \E p \in Strong \cup Weak : config' = [config EXCEPT !.panel = p]
    BY <2>1, <2>2 DEF ProcessOK, Config
  <2>3. CASE \E p \in Strong \cup Weak : config' = [config EXCEPT !.app = p]
    BY <2>1, <2>3 DEF ProcessOK, Config
  <2>4. CASE \E k \in Keys : config' = [config EXCEPT !.key = k]
    BY <2>1, <2>4 DEF ProcessOK, Config
  <2>5. CASE \E u \in GoodUrls : config' = [config EXCEPT !.proxy = u]
    <3>1. PICK u \in GoodUrls : config' = [config EXCEPT !.proxy = u]
      BY <2>5
    <3>2. u \in Urls
      BY DEF Urls
    <3> QED
      BY <2>1, <3>1, <3>2 DEF ProcessOK, Config
  <2>6. CASE config' = [config EXCEPT !.trace = ~@]
    BY <2>1, <2>6 DEF ProcessOK, Config
  <2> QED
    BY <1>1, <2>2, <2>3, <2>4, <2>5, <2>6 DEF EditConfig
<1>2. CASE ~EditConfig
  <2>1. config' = config /\ phase' \in Phases \cup {phase}
    BY <1>2 DEF Next, Open, BootstrapServeAdmin, Serve, ServeRefuses, Stop, Command, KeyHandler,
                SettingsHandler, ModelHandler, Phases
  <2> QED
    BY <2>1 DEF ProcessOK
<1> QED
  BY <1>1, <1>2

\* A process that was never started satisfies the invariant.
LEMMA PlaneInit == Init => PlaneInv
<1> SUFFICES ASSUME Init PROVE PlaneInv
  OBVIOUS
<1> USE SettingsAssumption, SecurityBootstrapAssumption DEF Init
<1>1. ProcessOK
  BY DEF ProcessOK, Phases, Config, Urls
<1>2. SettingsTypes
  BY FirstDocType DEF SettingsInit, SettingsTypes, Shared, Live, Urls
<1>3. FormsOlder
  BY DEF SettingsInit, FormsOlder
<1>4. SettingsFollow
  BY FirstDocType DEF SettingsInit, SettingsFollow, Saving
<1>5. RegistryInv
  BY DEF RegistryInit, RegistryInv, RegistryTypes, CatalogFollow, Table, EditRec
<1>6. SecurityInv
  BY DEF SecurityInit, SecurityInv, SecurityTypes, MarkersTrue, NoKey
<1> QED
  BY <1>1, <1>2, <1>3, <1>4, <1>5, <1>6 DEF PlaneInv, SettingsInv

\* Every step keeps the invariant of the three parts.
LEMMA PlaneStep == PlaneInv /\ [Next]_vars => PlaneInv'
<1> SUFFICES ASSUME PlaneInv, [Next]_vars PROVE PlaneInv'
  OBVIOUS
<1>1. CASE Next
  BY <1>1, ProcessStep, SettingsStep, RegistryStep, SecurityStep DEF PlaneInv
<1>2. CASE UNCHANGED vars
  <2>1. UNCHANGED <<settingsVars, registryVars, securityVars, phase, config>>
    BY <1>2 DEF vars
  <2> QED
    BY <2>1, SettingsStill, RegistryStill, SecurityStill DEF PlaneInv, ProcessOK
<1> QED
  BY <1>1, <1>2

\* The invariant holds in every reachable state.
LEMMA PlaneInvariant == Spec => []PlaneInv
BY PlaneInit, PlaneStep, PTL DEF Spec

\* An administrator's save never overwrites a document he has not loaded
\* (expected_revision in the transaction of PUT /settings), with any number of
\* administrators.
THEOREM SavesNotLost == Spec => NoLostSave
<1>1. PlaneInv /\ [Next]_vars =>
        [stored' # stored => \E a \in Admins : seen[a] = stored /\ seen'[a] = stored']_vars
  BY SettingsStep DEF PlaneInv, vars, settingsVars
<1> QED
  BY <1>1, PlaneInvariant, PTL DEF Spec, NoLostSave

\* Once a save has been applied alone, or the process has started, every part
\* runs with the stored document (ApplySettings, serve).
THEOREM SettingsReachEveryPart == Spec => []SettingsApplied
<1>1. PlaneInv => SettingsApplied
  BY DEF PlaneInv, ProcessOK, SettingsInv, SettingsTypes, RegistryInv, RegistryTypes, SecurityInv,
         SecurityTypes, SettingsApplied, SettingsFollow, Applied, ProxyFollows, TypeOK, Shared, Live
<1> QED
  BY <1>1, PlaneInvariant, PTL

\* Once no catalog is being rebuilt and the last row was written alone, the
\* bridge routes exactly the names of the enabled rows (refreshModelCatalog,
\* CatalogFromRegistry).
THEOREM CatalogRoutesRegistry == Spec => []CatalogFollowsRegistry
<1>1. PlaneInv => CatalogFollowsRegistry
  <2> SUFFICES ASSUME PlaneInv, phase = "serving", ~crossed,
                      \A e \in Editors : ~(At(e, "list") \/ At(e, "assign"))
               PROVE  Routes(models, catalog)
    BY DEF CatalogFollowsRegistry, Names, Routes
  <2>1. models \in Table /\ catalog = BuildCatalog(Listed(models))
    BY DEF PlaneInv, RegistryInv, RegistryTypes, CatalogFollow, Rebuilding
  <2> QED
    BY <2>1, CatalogBuilt
<1> QED
  BY <1>1, PlaneInvariant, PTL

\* A row of the model table is changed by an administrator's request only; the
\* seeding at every start and command leaves it as it is (SeedModels).
THEOREM SeedsKeepRows == Spec => ManagedKept
<1>1. PlaneInv /\ [Next]_vars =>
        [\A id \in Ids : Exists(models, id) /\ models'[id] # models[id]
            => phase = "serving" /\ edit' # edit]_vars
  BY RegistryStep DEF PlaneInv, vars, registryVars
<1> QED
  BY <1>1, PlaneInvariant, PTL DEF Spec, ManagedKept

\* No start, command or edit of the file replaces an administrator or a migrated
\* key, and a revoked key stays revoked (bootstrap.go).
THEOREM SecretsUsedOnce == Spec => BootstrapOnce
<1>1. PlaneInv /\ [Next]_vars =>
        [/\ admin # NoSecret => admin' = admin
         /\ legacy # NoKey => legacy'.hash = legacy.hash
         /\ legacy.revoked => legacy'.revoked]_vars
  BY SecurityStep DEF PlaneInv, Kept, vars, securityVars
<1> QED
  BY <1>1, PlaneInvariant, PTL DEF Spec, BootstrapOnce

\* Who serves has bootstrapped: the configured key is the migrated one, an
\* accepted password has produced an administrator.
THEOREM ServingIsBootstrapped == Spec => []ServesBootstrapped
<1>1. PlaneInv => ServesBootstrapped
  BY DEF PlaneInv, SecurityInv, MarkersTrue, ServesBootstrapped
<1> QED
  BY <1>1, PlaneInvariant, PTL
=============================================================================
