---------------------------- MODULE LogFormatter ----------------------------
(***************************************************************************)
(* siem::LogFormatter (src/Logger/Logger.cc): how a pattern such as        *)
(* "%d{%H:%M}%T%m" is cut into items, and what the items write.  A pattern *)
(* is a sequence of characters; an item is what stands in the pattern and, *)
(* for one with a letter, its {format}.  What an item takes from an event  *)
(* is named by its field.                                                  *)
(***************************************************************************)
EXTENDS Naturals, Sequences, SequencesExt, FiniteSetsExt

CONSTANTS
    Letters,            \* the characters for which isalpha() holds
    Alphabet, MaxLength \* bounds: the characters and the length of the patterns

VARIABLE pattern        \* m_pattern of a formatter

\* s_format_items: the letters that stand for something in an event
FormatItems ==
    [m |-> "content", p |-> "level", r |-> "elapse", c |-> "name", t |-> "threadId",
     n |-> "newline", d |-> "time", f |-> "file", l |-> "line", T |-> "tab",
     F |-> "fiberId", N |-> "threadName"]

\* The characters that init() looks for
Percent == "%"
OpenBrace == "{"
CloseBrace == "}"

Text(s) == [kind |-> "text", name |-> s, format |-> <<>>]
Item(name, format) == [kind |-> "item", name |-> name, format |-> format]
PatternError == [kind |-> "error", name |-> <<>>, format |-> <<>>]

Pending(s) == IF s = <<>> THEN <<>> ELSE <<Text(s)>>

\* The first position from n on with a character in S, or the end of the pattern.
FirstIn(p, n, S) == Min({i \in n..Len(p) : p[i] \in S} \cup {Len(p) + 1})

Chars(p) == {p[i] : i \in DOMAIN p}

\* What the `%` at i starts: the name runs to a character that is no letter or
\* brace, or to a `{`, whose format runs to the next `}`.
ItemAt(p, i) ==
    LET stop == FirstIn(p, i + 1, Chars(p) \ (Letters \cup {CloseBrace}))
        name == SubSeq(p, i + 1, stop - 1)
        close == FirstIn(p, stop + 1, {CloseBrace})
    IN  IF stop > Len(p) \/ p[stop] # OpenBrace
          THEN [closed |-> TRUE, item |-> Item(name, <<>>), next |-> stop]
          ELSE [closed |-> close <= Len(p), item |-> Item(name, SubSeq(p, stop + 1, close - 1)),
                next |-> close + 1]

\* Mutation of Pass: the text before an item is not flushed.
PassUnflushed(p, s) ==
    LET at == ItemAt(p, s.i)
    IN  IF s.i > Len(p) THEN s
        ELSE IF p[s.i] # Percent \/ (s.i < Len(p) /\ p[s.i + 1] = Percent)
          THEN [s EXCEPT !.i = s.i + 1, !.text = Append(@, p[s.i])]
        ELSE IF at.closed THEN [s EXCEPT !.i = at.next, !.items = Append(@, at.item)]
        ELSE [s EXCEPT !.i = s.i + 1, !.items = Append(@, PatternError)]

\* Mutation of Pass: the second of two percents is skipped.
PassEscaped(p, s) ==
    LET at == ItemAt(p, s.i)
    IN  IF s.i > Len(p) THEN s
        ELSE IF p[s.i] # Percent THEN [s EXCEPT !.i = s.i + 1, !.text = Append(@, p[s.i])]
        ELSE IF s.i < Len(p) /\ p[s.i + 1] = Percent
          THEN [s EXCEPT !.i = s.i + 2, !.text = Append(@, Percent)]
        ELSE IF at.closed
          THEN [i |-> at.next, text |-> <<>>, items |-> s.items \o Pending(s.text) \o <<at.item>>]
        ELSE [s EXCEPT !.i = s.i + 1, !.items = Append(@, PatternError)]

\* One turn of the loop of init(), on its position, the text that no item has ended
\* yet and the items.  The second of two percents is looked at again.  An item whose
\* `{` is not closed is an error, which goes before the pending text, and its
\* characters are text.
Pass(p, s) ==
    LET at == ItemAt(p, s.i)
    IN  IF s.i > Len(p) THEN s
        ELSE IF p[s.i] # Percent \/ (s.i < Len(p) /\ p[s.i + 1] = Percent)
          THEN [i |-> s.i + 1, text |-> Append(s.text, p[s.i]), items |-> s.items]
        ELSE IF at.closed
          THEN [i |-> at.next, text |-> <<>>, items |-> s.items \o Pending(s.text) \o <<at.item>>]
        ELSE [i |-> s.i + 1, text |-> s.text, items |-> Append(s.items, PatternError)]

\* The loop after n turns; every turn takes at least a character.
Scan(p) ==
    LET after[n \in 0..Len(p)] ==
            IF n = 0 THEN [i |-> 1, text |-> <<>>, items |-> <<>>] ELSE Pass(p, after[n - 1])
    IN  after

Items(p) == LET end == Scan(p)[Len(p)] IN end.items \o Pending(end.text)

IsKnown(item) == Len(item.name) = 1 /\ item.name[1] \in DOMAIN FormatItems

\* What the items write, in order; only a date has a use for its format.
Writes(item) ==
    CASE item.kind = "text" -> item.name
      [] item.kind = "error" -> <<"pattern error">>
      [] item.kind = "item" /\ IsKnown(item) ->
           <<FormatItems[item.name[1]]>> \o IF item.name[1] = "d" THEN item.format ELSE <<>>
      [] item.kind = "item" /\ ~IsKnown(item) -> <<"format error">> \o item.name

Format(p) == FlattenSeq([i \in DOMAIN Items(p) |-> Writes(Items(p)[i])])

-----------------------------------------------------------------------------
(* Every pattern is one that a program may build, a character at a time. *)

FormatterInit == pattern = <<>>

Extend(char) == Len(pattern) < MaxLength /\ pattern' = Append(pattern, char)

FormatterNext == \E char \in Alphabet : Extend(char)

FormatterSpec == FormatterInit /\ [][FormatterNext]_pattern

-----------------------------------------------------------------------------
(* Properties *)

HasError(p) == \E i \in DOMAIN Items(p) : Items(p)[i].kind = "error"

\* What stands in the pattern for an item
Source(item) ==
    IF item.kind = "text" THEN item.name
    ELSE <<Percent>> \o item.name \o
         IF item.format = <<>> THEN <<>> ELSE <<OpenBrace>> \o item.format \o <<CloseBrace>>

\* Some item of the pattern may have an empty format, which counts as none.
HasEmptyFormat(p) == \E i \in 1..(Len(p) - 1) : p[i] = OpenBrace /\ p[i + 1] = CloseBrace

\* init() loses, doubles and moves no character: the items, written down again in
\* their order, are the pattern, unless a `{` is left open.  In particular two
\* percents are a percent sign and the start of an item, and not an escape.
ReadsBack ==
    ~HasError(pattern) /\ ~HasEmptyFormat(pattern)
        => FlattenSeq([i \in DOMAIN Items(pattern) |-> Source(Items(pattern)[i])]) = pattern

\* The cut between p and q is not within an item: q starts with a percent or a
\* character that cannot belong to an item, and not with the second of two percents.
CleanCut(p, q) ==
    /\ p # <<>> /\ Last(p) # Percent
    /\ q # <<>> /\ q[1] \notin Letters \cup {OpenBrace, CloseBrace}

\* What a pattern writes is what its parts write, wherever it is cut between items:
\* a text that init() holds back until it has seen the end of it, and a {format},
\* leak into no other part.
Composes ==
    \A n \in 0..Len(pattern) :
        LET p == SubSeq(pattern, 1, n)
            q == SubSeq(pattern, n + 1, Len(pattern))
        IN  CleanCut(p, q) /\ ~HasError(p) /\ ~HasError(q) => Format(pattern) = Format(p) \o Format(q)
=============================================================================
