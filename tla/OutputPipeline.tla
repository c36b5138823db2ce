--------------------------- MODULE OutputPipeline ---------------------------
(***************************************************************************)
(* How the output of an agent's CLI becomes the record that clients read   *)
(* (data-plane/cmd/agent: claude_stream.go, codex_stream.go, the projector *)
(* of minimax_code.go and the turn markers of claude.go), and how the      *)
(* credential proxy passes a streamed answer on                            *)
(* (credential_proxy_stream.go).                                           *)
(*                                                                         *)
(* stdout goes through a projector and stderr does not; each is made valid *)
(* UTF-8 by itself, and both end in one sink, which takes the credentials  *)
(* out, bounds the run and appends to the bounded record.  Writes cut the  *)
(* text anywhere; a reader may look at the record after every one.         *)
(*                                                                         *)
(* Text is a sequence of symbols.  "uv" is a rune of two bytes, "s" the    *)
(* byte that begins a turn marker, "n" a newline; "?" a replaced byte, "R" *)
(* a redaction, "T" a turn marker, "P" a platform notice and "O" the line  *)
(* for an oversized record stand for their whole text.                     *)
(***************************************************************************)
EXTENDS Naturals, Sequences, SequencesExt

CONSTANTS
    Literals,    \* the credentials
    Texts,       \* what a JSON string may hold
    Pieces,      \* raw bytes that are written or read at once
    Asked,       \* the prompts
    MaxWrites,   \* bound on the writes of the CLI, and on the reads of the proxy
    MaxTurns,    \* bound on the turns
    MaxNotices,  \* bound on the platform's notices
    RunLimit,    \* what one run may add: runOutputLimit
    RecordLimit, \* what the record may hold: scrollbackLimit
    ProxyLimit   \* what the proxy passes on of one answer

\* The bytes of a text, and those of a credential.
Bytes  == {"a", "b", "n", "s", "u", "v"}
Secret == {"a", "b"}

ASSUME PipelineAssumption ==
    /\ \A l \in Literals : l \in Seq(Secret) /\ l # << >>
    /\ \A t \in Texts : t \in Seq(Bytes) /\ t # << >>
    /\ \A t \in Pieces \cup Asked : t \in Seq(Bytes)
    /\ {MaxWrites, MaxTurns, MaxNotices} \subseteq Nat
    /\ {RunLimit, RecordLimit, ProxyLimit} \subseteq Nat \ {0}

VARIABLES
    cli,      \* whose output this is: the three agents, or "proxy"
    phase,    \* "idle", "run", "closed"; of the proxy also "broken"
    line,     \* the record the projector has without its newline
    proj,     \* the projector
    half,     \* per file descriptor: the beginning of a rune
    sink,     \* the redactor's held text and the run's account
    out,      \* the record; for the proxy what the workload has received
    arrived,  \* everything the sink was given in this run
    start,    \* where this run's part of the record begins
    writes, turns, notices

pipeVars == <<cli, phase, line, proj, half, sink, out, arrived, start, writes, turns, notices>>

CLIs     == {"claude", "codex", "minimax-code"}
Marker   == <<"M", "M">>   \* claudeRunOutputLimitMarker
Full     == <<"F", "F">>   \* claudeOutputLimitMarker
Items    == {1, 2}
NoItem     == 0

Least(x, y) == IF x < y THEN x ELSE y
First(t, k) == SubSeq(t, 1, k)
From(t, k)  == SubSeq(t, k, Len(t))
Ending(t, n) == From(t, Len(t) - n + 1)

\* The text without the symbol c.
Without(t, c) ==
    LET kept[i \in 1 .. Len(t) + 1] ==
            IF i > Len(t) THEN << >> ELSE (IF t[i] = c THEN << >> ELSE <<t[i]>>) \o kept[i + 1]
    IN  kept[1]

-----------------------------------------------------------------------------
\* Valid UTF-8.

\* DecodeRune over the whole text: a byte that is part of no rune is replaced.
Runes(t) ==
    LET rune[i \in 1 .. Len(t) + 2] ==
            IF i > Len(t) THEN << >>
            ELSE IF t[i] = "u" /\ i < Len(t) /\ t[i + 1] = "v" THEN <<"u", "v">> \o rune[i + 2]
            ELSE <<IF t[i] \in {"u", "v"} THEN "?" ELSE t[i]>> \o rune[i + 1]
    IN  rune[1]

\* What the normalizer keeps back: a rune that may still be completed.
HalfOf(t) == IF t # << >> /\ Last(t) = "u" THEN <<"u">> ELSE << >>
Whole(t)  == Runes(First(t, Len(t) - Len(HalfOf(t))))

\* validUTF8PrefixAtMost.
PrefixAtMost(t, limit) ==
    LET k == Least(limit, Len(t))
    IN  IF k < Len(t) /\ k > 0 /\ t[k + 1] = "v" THEN First(t, k - 1) ELSE First(t, k)

-----------------------------------------------------------------------------
\* The redactor.

Starts(t, i, l) == i + Len(l) - 1 <= Len(t) /\ SubSeq(t, i, i + Len(l) - 1) = l
Found(t) == {m \in (1 .. Len(t)) \X Literals : Starts(t, m[1], m[2])}

\* The leftmost match, and of those the longest.
BestMatch(t) ==
    CHOOSE m \in Found(t) :
        \A k \in Found(t) : m[1] < k[1] \/ (m[1] = k[1] /\ Len(m[2]) >= Len(k[2]))

\* Mutation: a literal that lacks only its last byte is let go.
KeepShort(t) ==
    LET held == {0} \cup {n \in 1 .. Len(t) : \E l \in Literals : n + 1 < Len(l) /\ Ending(t, n) = First(l, n)}
    IN  CHOOSE n \in held : \A k \in held : k <= n

\* The longest end of t that could still grow into a literal.
Keep(t) ==
    LET held == {0} \cup {n \in 1 .. Len(t) : \E l \in Literals : n < Len(l) /\ Ending(t, n) = First(l, n)}
    IN  CHOOSE n \in held : \A k \in held : k <= n

\* drain: what is let go of the pending text, and what is held.
Drain(t, final) ==
    LET drained[i \in 1 .. Len(t) + 1] ==
            LET rest == From(t, i)
                m    == BestMatch(rest)
                k    == IF final THEN 0 ELSE Keep(rest)
                next == drained[i + m[1] - 1 + Len(m[2])]
            IN  IF Found(rest) # {}
                THEN [next EXCEPT !.out = First(rest, m[1] - 1) \o <<"R">> \o @]
                ELSE [out |-> First(rest, Len(rest) - k), held |-> From(rest, Len(rest) - k + 1)]
    IN  drained[1]

withoutTurnSentinel(t) == Without(t, "s")

-----------------------------------------------------------------------------
\* The record and the sink.

DataLimit == IF RecordLimit > Len(Full) THEN RecordLimit - Len(Full) ELSE 0
IsFull(o) == Len(o) > DataLimit

\* appendClaudeBoundedAt: room for the last marker is always left.
AppendBounded(o, t) ==
    IF IsFull(o) \/ t = << >> THEN o
    ELSE IF Len(o) + Len(t) <= DataLimit THEN o \o t
    ELSE o \o PrefixAtMost(t, DataLimit - Len(o)) \o Full

NewSink == [held |-> << >>, seen |-> 0, emitted |-> 0, pending |-> << >>, truncated |-> FALSE, full |-> FALSE]

AppendSession(st, t) ==
    LET o == AppendBounded(st.out, t)
    IN  IF st.sink.full THEN st
        ELSE [out |-> o, sink |-> [st.sink EXCEPT !.full = ~IsFull(st.out) /\ IsFull(o) /\ t # << >>]]

\* Mutation: no room is kept for the marker.
RoomOfAll == RunLimit

\* What a run may show before it is known to fit.
RunRoom == RunLimit - Least(Len(Marker), RunLimit)

\* appendBoundedLocked: the end of the run's allowance stays unexposed until it is
\* known that the marker need not take its place.
AppendRun(st, t) ==
    LET s       == st.sink
        pending == s.pending \o t
        show    == IF RunRoom > s.emitted THEN PrefixAtMost(pending, RunRoom - s.emitted) ELSE << >>
        shown   == AppendSession(st, show)
        account == [shown.sink EXCEPT !.seen = @ + Len(t), !.emitted = @ + Len(show),
                                      !.pending = From(pending, Len(show) + 1)]
        over    == AppendSession([out |-> shown.out, sink |-> account], First(Marker, Least(Len(Marker), RunLimit)))
    IN  IF t = << >> \/ s.truncated \/ s.full THEN st
        ELSE IF s.seen + Len(t) <= RunLimit THEN [out |-> shown.out, sink |-> account]
        ELSE [over EXCEPT !.sink.truncated = TRUE, !.sink.pending = << >>]

\* claudeOutputSink.Write.
SinkWrite(st, t) ==
    LET d == Drain(st.sink.held \o withoutTurnSentinel(t), FALSE)
    IN  IF t = << >> \/ st.sink.truncated \/ st.sink.full THEN st
        ELSE AppendRun([st EXCEPT !.sink.held = d.held], d.out)

\* claudeOutputSink.Close.
SinkClose(st) ==
    LET last == IF st.sink.truncated \/ st.sink.full THEN st
                ELSE AppendRun([st EXCEPT !.sink.held = << >>], Drain(st.sink.held, TRUE).out)
    IN  IF last.sink.truncated THEN last ELSE AppendSession(last, last.sink.pending)

Now == [out |-> out, sink |-> sink]
Set(st) == out' = st.out /\ sink' = st.sink

-----------------------------------------------------------------------------
\* The projectors.

Record(kind, id, text) == [kind |-> kind, id |-> id, text |-> text]

\* The lines a CLI may print; "diag" is not JSON, "other" is not for the user.
Records ==
    {Record("diag", NoItem, t) : t \in Pieces} \cup {Record("other", NoItem, << >>)} \cup
    CASE cli = "claude"       -> {Record(k, NoItem, t) : k \in {"delta", "result"}, t \in Texts}
                                   \cup {Record("stop", NoItem, << >>)}
      [] cli = "minimax-code" -> {Record(k, i, t) : k \in {"delta", "completed"}, i \in Items, t \in Texts}
                                   \cup {Record("stop", NoItem, << >>)}
      [] cli = "codex"        -> {Record("message", NoItem, t) : t \in Texts} \cup {Record("oversized", NoItem, << >>)}
      [] OTHER                -> {}

NewProjector == [text |-> FALSE, newline |-> FALSE, projected |-> FALSE, open |-> NoItem, streamed |-> {}]

\* A projector's work so far: what it has written on, and its state.
Wrote(w, t) == [w EXCEPT !.out = @ \o t]

WriteText(w, t) ==
    [Wrote(w, t) EXCEPT !.proj.text = TRUE, !.proj.projected = TRUE, !.proj.newline = (Last(t) = "n")]

\* A message that did not end its line is given a newline.
FinishMessage(w) ==
    [Wrote(w, IF w.proj.text /\ ~w.proj.newline THEN <<"n">> ELSE << >>)
        EXCEPT !.proj.text = FALSE, !.proj.newline = FALSE]

\* Two messages never run together.
OpenMessage(w, id) == IF w.proj.open = id THEN w ELSE [FinishMessage(w) EXCEPT !.proj.open = id]

ProjectClaude(w, r) ==
    CASE r.kind = "delta"                           -> WriteText(w, r.text)
      [] r.kind = "stop"                            -> FinishMessage(w)
      [] r.kind = "result" /\ ~w.proj.projected     -> FinishMessage(WriteText(w, r.text))
      [] OTHER                                      -> w

ProjectMiniMax(w, r) ==
    LET once == IF r.id \in w.proj.streamed THEN w ELSE WriteText(OpenMessage(w, r.id), r.text)
        done == [once EXCEPT !.proj.streamed = @ \ {r.id}]
    IN  CASE r.kind = "delta"     -> [WriteText(OpenMessage(w, r.id), r.text) EXCEPT !.proj.streamed = @ \cup {r.id}]
          [] r.kind = "completed" -> IF done.proj.open = r.id
                                     THEN FinishMessage([done EXCEPT !.proj.open = NoItem]) ELSE done
          [] r.kind = "stop"      -> FinishMessage(w)
          [] OTHER                -> w

Lined(t) == IF t # << >> /\ Last(t) = "n" THEN t ELSE Append(t, "n")

ProjectCodex(w, r) ==
    CASE r.kind = "message"   -> Wrote(w, Lined(r.text))
      [] r.kind = "diag"      -> Wrote(w, Lined(r.text))
      [] r.kind = "oversized" -> Wrote(w, <<"O">>)
      [] OTHER                -> w

\* projectLine, of a line with or without its newline.
Project(r, newline) ==
    LET w == [out |-> << >>, proj |-> proj]
    IN  IF cli = "codex" THEN ProjectCodex(w, r)
        ELSE IF r.kind = "diag" THEN Wrote(w, IF newline THEN Append(r.text, "n") ELSE r.text)
        ELSE IF cli = "claude" THEN ProjectClaude(w, r)
        ELSE ProjectMiniMax(w, r)

-----------------------------------------------------------------------------
\* Turns.

NoLine  == Record("none", NoItem, << >>)
Dropped == Record("dropped", NoItem, << >>)   \* codex: the rest of an oversized line
Cut     == Record("diag", NoItem, <<"a", "b">>) \* what a killed CLI leaves of a JSON line

NoHalf == [stdout |-> << >>, stderr |-> << >>]

PipeInit ==
    /\ cli \in CLIs \cup {"proxy"}
    /\ phase = IF cli = "proxy" THEN "run" ELSE "idle"
    /\ line = NoLine /\ proj = NewProjector
    /\ half = NoHalf
    /\ sink = NewSink /\ out = << >> /\ arrived = << >>
    /\ start = 0 /\ writes = 0 /\ turns = 0 /\ notices = 0

\* appendTurnBlock: a marker begins a line of its own.
TurnBlock(t) ==
    LET newline == out = << >> \/ Last(out) \in {"n", "T", "O", "P", "M", "F"}
    IN  AppendBounded(out, IF newline THEN t ELSE <<"n">> \o t)

Untailed(t) == IF t # << >> /\ Last(t) = "n" THEN Front(t) ELSE t

\* beginTurn and the run's new sink.  A prompt that was queued runs although the
\* record has become full since.
BeginTurn(prompt) ==
    LET body == Append(Untailed(Runes(prompt)), "n")
        o    == TurnBlock(<<"T">> \o Drain(withoutTurnSentinel(body), TRUE).out \o <<"T">>)
    IN  /\ phase = "idle" /\ turns < MaxTurns
        /\ phase' = "run" /\ turns' = turns + 1
        /\ out' = o /\ start' = Len(o) /\ arrived' = << >>
        /\ line' = NoLine /\ proj' = NewProjector /\ half' = NoHalf /\ sink' = NewSink
        /\ UNCHANGED <<cli, writes, notices>>

\* Text on its way from a file descriptor to the sink.
Pass(fd, t) ==
    LET all == half[fd] \o t
    IN  /\ half' = [half EXCEPT ![fd] = HalfOf(all)]
        /\ arrived' = arrived \o Whole(all)
        /\ Set(SinkWrite(Now, Whole(all)))

Writing == phase = "run" /\ cli # "proxy" /\ writes < MaxWrites

\* A line without its newline yet; one that outgrows codex's buffer is dropped at once.
StdoutArrives(r) ==
    /\ Writing /\ line = NoLine
    /\ writes' = writes + 1
    /\ IF r.kind = "oversized"
       THEN line' = Dropped /\ Pass("stdout", Project(r, FALSE).out)
       ELSE line' = r /\ UNCHANGED <<half, arrived, out, sink>>
    /\ UNCHANGED <<cli, phase, proj, start, turns, notices>>

LineEnds ==
    /\ phase = "run" /\ line # NoLine
    /\ LET w == Project(line, TRUE)
       IN  Pass("stdout", w.out) /\ proj' = w.proj
    /\ line' = NoLine
    /\ UNCHANGED <<cli, phase, start, writes, turns, notices>>

Stderr(t) ==
    /\ Writing
    /\ writes' = writes + 1
    /\ Pass("stderr", t)
    /\ UNCHANGED <<cli, phase, line, proj, start, turns, notices>>

\* The CLI has ended: the projector, both normalizers and the sink are flushed.
CloseRun(r) ==
    LET w     == Project(r, FALSE)
        shown == IF cli = "codex" THEN w ELSE FinishMessage(w)
        rest  == Runes(half.stdout \o shown.out) \o Runes(half.stderr)
    IN  /\ phase = "run" /\ cli # "proxy"
        /\ r = line \/ (line.kind \notin {"none", "diag", "dropped"} /\ r = Cut)
        /\ phase' = "closed"
        /\ arrived' = arrived \o rest
        /\ Set(SinkClose(SinkWrite(Now, rest)))
        /\ line' = NoLine /\ proj' = shown.proj /\ half' = NoHalf
        /\ UNCHANGED <<cli, start, writes, turns, notices>>

EndTurn ==
    /\ phase = "closed" /\ cli # "proxy"
    /\ phase' = "idle"
    /\ out' = TurnBlock(<<"T">>)
    /\ UNCHANGED <<cli, line, proj, half, sink, arrived, start, writes, turns, notices>>

\* appendPlatformNotice: past the sink and the run's allowance, at any time.
Notice ==
    /\ cli # "proxy" /\ notices < MaxNotices
    /\ notices' = notices + 1
    /\ out' = AppendBounded(out, <<"P">>)
    /\ UNCHANGED <<cli, phase, line, proj, half, sink, arrived, start, writes, turns>>

-----------------------------------------------------------------------------
\* The credential proxy's streamed answer: the same redactor, raw bytes.

ProxyRead(t) ==
    LET allowed == Least(Len(t), ProxyLimit - Len(arrived))
        d       == Drain(sink.held \o First(t, allowed), FALSE)
    IN  /\ cli = "proxy" /\ phase = "run" /\ writes < MaxWrites
        /\ writes' = writes + 1
        /\ arrived' = arrived \o First(t, allowed)
        /\ out' = out \o d.out
        /\ sink' = [sink EXCEPT !.held = d.held]
        /\ phase' = IF allowed < Len(t) THEN "broken" ELSE "run"
        /\ UNCHANGED <<cli, line, proj, half, start, turns, notices>>

\* Mutation: what was held is passed on although the answer was cut.
FailFlushing ==
    /\ cli = "proxy" /\ phase = "run"
    /\ phase' = "broken"
    /\ out' = out \o Drain(sink.held, TRUE).out
    /\ sink' = [sink EXCEPT !.held = << >>]
    /\ UNCHANGED <<cli, line, proj, half, arrived, start, writes, turns, notices>>

\* The upstream fails: what is held might be part of the credential.
ProxyFails ==
    /\ cli = "proxy" /\ phase = "run"
    /\ phase' = "broken"
    /\ UNCHANGED <<cli, line, proj, half, sink, out, arrived, start, writes, turns, notices>>

ProxyEOF ==
    /\ cli = "proxy" /\ phase = "run"
    /\ phase' = "closed"
    /\ out' = out \o Drain(sink.held, TRUE).out
    /\ sink' = [sink EXCEPT !.held = << >>]
    /\ UNCHANGED <<cli, line, proj, half, arrived, start, writes, turns, notices>>

PipeNext ==
    \/ \E p \in Asked : BeginTurn(p)
    \/ \E r \in Records : StdoutArrives(r)
    \/ LineEnds
    \/ \E t \in Pieces : Stderr(t)
    \/ \E r \in {line, Cut} : CloseRun(r)
    \/ EndTurn
    \/ Notice
    \/ \E t \in Pieces : ProxyRead(t)
    \/ ProxyFails
    \/ ProxyEOF

PipeSpec == PipeInit /\ [][PipeNext]_pipeVars

-----------------------------------------------------------------------------
\* Properties.

\* What a whole text should look like: at every place the longest literal that
\* begins there is replaced.
Redact(t) ==
    LET red[i \in 1 .. Len(t) + 1] ==
            IF i > Len(t) THEN << >>
            ELSE LET here == {l \in Literals : Starts(t, i, l)}
                     l    == CHOOSE x \in here : \A y \in here : Len(y) <= Len(x)
                 IN  IF here = {} THEN <<t[i]>> \o red[i + 1] ELSE <<"R">> \o red[i + Len(l)]
    IN  red[1]

\* No credential is a part of another one; of a single one this is so.  Where it is
\* not so, what a text is redacted to depends on how it was cut into writes.
Independent == \A l, m \in Literals : l # m => \A i \in 1 .. Len(l) : ~Starts(l, i, m)

\* The limits leave room for the markers that take the end of what they allow.
Roomy == RunLimit >= Len(Marker) /\ RecordLimit >= Len(Full)

\* What clients can read at any moment, between any two writes of stdout and of
\* stderr and wherever the limits cut: no credential, no turn marker that a CLI or
\* a prompt has written, and no part of a rune, so that every cursor is safe for
\* the JSON answer (claude_stream.go:135-138, 192-194).  No credential is in what
\* the proxy has passed on either.
ShownIsClean ==
    /\ Found(out) = {}
    /\ cli # "proxy" =>
         \A i \in 1 .. Len(out) :
            /\ out[i] # "s"
            /\ out[i] = "u" => i < Len(out) /\ out[i + 1] = "v"
            /\ out[i] = "v" => i > 1 /\ out[i - 1] = "u"

\* What the proxy has passed on of an answer stays right however the answer would
\* have gone on, so that no piece of a credential leaves when the upstream fails
\* (credential_proxy_stream.go:75-78), and at the end the workload has the redaction
\* of the whole answer, no matter how it came in.
PassedOnIsFinal ==
    cli = "proxy" =>
        /\ phase # "closed" =>
             \A l \in Literals : \A k \in 1 .. Len(l) : IsPrefix(out, Redact(arrived \o From(l, k)))
        /\ phase = "closed" => out = Redact(arrived)

\* When a run has been flushed its part of the record is the redaction of
\* everything that came in, cut to whole runes and marked if it is more than the
\* run's allowance, no matter how it was cut into writes and with notices between;
\* if the record is full it is the beginning of that, and the record ends with the
\* marker within its limit (claude_stream.go:262-266, main.go:356-358).  What the
\* proxy passes on is right likewise (PassedOnIsFinal).
RunIsRecorded ==
    LET clean == Redact(Without(arrived, "s"))
        fits  == Len(clean) <= RunLimit
        want  == IF fits THEN clean
                 ELSE PrefixAtMost(clean, RunLimit - Len(Marker)) \o Marker
        part  == Without(From(out, start + 1), "P")
    IN  /\ PassedOnIsFinal
        /\ cli # "proxy" => Len(out) <= RecordLimit
        /\ phase = "closed" /\ cli # "proxy" =>
              \/ ~IsFull(out) /\ part = want
              \/ IsFull(out) /\ start > DataLimit /\ part = << >>
              \/ IsFull(out) /\ start <= DataLimit /\ \E k \in 0 .. Len(want) : part = First(want, k) \o Full

=============================================================================
