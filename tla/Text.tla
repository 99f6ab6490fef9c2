-------------------------------- MODULE Text --------------------------------
(***************************************************************************)
(* algorithms/string.h and utility/string_view.h.  A string is a sequence  *)
(* of characters, which are numbers; positions are counted from 0 as in    *)
(* the code, and At(s, i) is s[i].  Blank is the one white space, and the  *)
(* delimiter of split(); Star and AnyChar are the wildcards '*' and '?'.   *)
(* The last part are texts that are cut to fit an array of a fixed number of *)
(* bytes, the last of which is 0: detail::fixed_string and error_context   *)
(* (error/error_context.h) and the lines of log_formatter (logging/        *)
(* log_formatter.h).                                                       *)
(***************************************************************************)
EXTENDS Loops

Blank == 0
Star == 8
AnyChar == 9
Npos == -1

At(s, i) == s[i + 1]
Part(s, pos, n) == IF n <= 0 THEN <<>> ELSE SubSeq(s, pos + 1, pos + n)
OrNpos(positions) == IF positions = <<>> THEN Npos ELSE Head(positions)

\* The while loop of the automaton: how long a border of the pattern's first
\* j characters goes on with the character c.
Border(pattern, prefix, j, c) ==
    LET from[k \in 0 .. j] == IF At(pattern, k) = c THEN k + 1
                             ELSE IF k = 0 THEN 0
                             ELSE from[At(prefix, k - 1)]
    IN  from[j]

\* Fault: the automaton falls back to the start, not to the next border.
BorderForgotten(pattern, prefix, j, c) ==
    IF At(pattern, j) = c THEN j + 1 ELSE IF At(pattern, 0) = c THEN 1 ELSE 0

KmpBuildPrefix(pattern) ==
    LET extend(prefix, i) ==
            Append(prefix, Border(pattern, prefix, Last(prefix), At(pattern, i)))
    IN  Upto(extend, <<0>>, 1, Len(pattern) - 1)

KmpSearch(text, pattern) ==
    LET m == Len(pattern)
        prefix == KmpBuildPrefix(pattern)
        step(a, i) ==
            LET j == Border(pattern, prefix, a.j, At(text, i))
            IN  IF j = m THEN [j |-> At(prefix, m - 1), positions |-> Append(a.positions, i - m + 1)]
                ELSE [a EXCEPT !.j = j]
    IN  IF m = 0 \/ Len(text) < m THEN <<>>
        ELSE Upto(step, [j |-> 0, positions |-> <<>>], 0, Len(text) - 1).positions

KmpFindFirst(text, pattern) == OrNpos(KmpSearch(text, pattern))

\* The last place of c in the pattern, -1 when it has none.
BadChar(pattern, c) == Max({-1} \cup {i \in 0 .. Len(pattern) - 1 : At(pattern, i) = c})

\* Fault: the shift after a mismatch may step over an occurrence.
ShiftTooFar(text, pattern, shift, j) ==
    j + 1 - Min({0, BadChar(pattern, At(text, shift + j))})

\* How far the pattern moves when character j differs from the text's.
ShiftAfterMismatch(text, pattern, shift, j) ==
    LET bad == BadChar(pattern, At(text, shift + j))
    IN  IF bad = -1 THEN j + 1 ELSE Max({1, j - bad})

BoyerMooreSearch(text, pattern) ==
    LET n == Len(text)
        m == Len(pattern)
        differ(shift) == {j \in 0 .. m - 1 : At(pattern, j) # At(text, shift + j)}
        from[shift \in Nat] ==
            IF shift > n - m THEN <<>>
            ELSE IF differ(shift) # {}
            THEN from[shift + ShiftAfterMismatch(text, pattern, shift, Max(differ(shift)))]
            ELSE <<shift>> \o from[
                     shift + IF shift + m < n THEN m - BadChar(pattern, At(text, shift + m)) ELSE 1]
    IN  IF pattern = <<>> \/ n < m THEN <<>> ELSE from[0]

\* Letters are 'a', 'b', ... here.  The hash is a size_t: below zero it
\* wraps around at 2^64, which is 79 modulo 101, before it is reduced.
Code(c) == 96 + c
HashStep(hash, c) == (hash * 256 + Code(c)) % 101
Reduced(x) == IF x < 0 THEN (x + 79) % 101 ELSE x % 101
HighestPower(m) == FoldLeft(LAMBDA p, i : (p * 256) % 101, 1, Copies(m - 1, 0))

\* The hash of the window at i + 1 from the one at i.
Rolled(hash, text, i, m) ==
    Reduced((hash - Code(At(text, i)) * HighestPower(m)) * 256 + Code(At(text, i + m)))

RabinKarpSearch(text, pattern) ==
    LET m == Len(pattern)
        hashOf(s) == FoldLeft(HashStep, 0, s)
        step(a, i) ==
            [positions |-> IF a.hash = hashOf(pattern) /\ Part(text, i, m) = pattern
                           THEN Append(a.positions, i) ELSE a.positions,
             hash |-> IF i < Len(text) - m THEN Rolled(a.hash, text, i, m) ELSE a.hash]
    IN  IF m = 0 \/ Len(text) < m THEN <<>>
        ELSE Upto(step, [positions |-> <<>>, hash |-> hashOf(Part(text, 0, m))],
                  0, Len(text) - m).positions

LevenshteinDistance(s, t) ==
    LET dp[i \in 0 .. Len(s), j \in 0 .. Len(t)] ==
            IF i = 0 THEN j
            ELSE IF j = 0 THEN i
            ELSE IF s[i] = t[j] THEN dp[i - 1, j - 1]
            ELSE 1 + Min({dp[i - 1, j], dp[i, j - 1], dp[i - 1, j - 1]})
    IN  dp[Len(s), Len(t)]

\* Empty tokens are dropped.
Split(s) ==
    LET close(a) == IF a.token = <<>> THEN a.tokens ELSE Append(a.tokens, a.token)
        step(a, c) == IF c = Blank THEN [token |-> <<>>, tokens |-> close(a)]
                      ELSE [a EXCEPT !.token = Append(@, c)]
    IN  close(FoldLeft(step, [token |-> <<>>, tokens |-> <<>>], s))

Join(tokens, delimiter) ==
    IF tokens = <<>> THEN <<>>
    ELSE FoldLeft(LAMBDA s, token : s \o delimiter \o token, Head(tokens), Tail(tokens))

LTrim(s) ==
    LET printable(i) == s[i] # Blank
    IN  SubSeq(s, FirstWhere(printable, Len(s)), Len(s))
RTrim(s) == SubSeq(s, 1, Max({0} \cup {i \in DOMAIN s : s[i] # Blank}))
Trim(s) ==
    LET printable(i) == s[i] # Blank
        start == FirstWhere(printable, Len(s))
        end == Max({start - 1} \cup {i \in start .. Len(s) : s[i] # Blank})
    IN  SubSeq(s, start, end)

StartsWith(s, prefix) == Len(prefix) <= Len(s) /\ Part(s, 0, Len(prefix)) = prefix
EndsWith(s, suffix) ==
    Len(suffix) <= Len(s) /\ Part(s, Len(s) - Len(suffix), Len(suffix)) = suffix

\* string::find and string_view::find from position pos on.
FindFrom(s, t, pos) ==
    LET found == {i \in pos .. Len(s) - Len(t) : Part(s, i, Len(t)) = t}
    IN  IF t = <<>> THEN (IF pos <= Len(s) THEN pos ELSE Npos)
        ELSE IF found = {} THEN Npos ELSE Min(found)

\* The search goes on behind what was put in.
ReplaceEvery(s, from, to) ==
    LET replaced[t \in Seq(ToSet(s \o to)), pos \in Nat] ==
            LET at == FindFrom(t, from, pos)
            IN  IF at = Npos THEN t
                ELSE replaced[Part(t, 0, at) \o to \o Part(t, at + Len(from), Len(t) - at - Len(from)),
                              at + Len(to)]
    IN  IF from = <<>> THEN s ELSE replaced[s, 0]

\* Not for the empty string: size() - 1 is the greatest size_t there.
IsPalindrome(s) == \A i \in 1 .. Len(s) \div 2 : s[i] = s[Len(s) + 1 - i]

WildcardMatch(pattern, s) ==
    LET dp[i \in 0 .. Len(pattern), j \in 0 .. Len(s)] ==
            IF i = 0 THEN j = 0
            ELSE IF pattern[i] = Star THEN dp[i - 1, j] \/ (j > 0 /\ dp[i, j - 1])
            ELSE j > 0 /\ pattern[i] \in {AnyChar, s[j]} /\ dp[i - 1, j - 1]
    IN  dp[Len(pattern), Len(s)]

\* is_digits, is_alpha, is_alnum: a class of characters is a set.
AllIn(s, class) == s # <<>> /\ ToSet(s) \subseteq class
-----------------------------------------------------------------------------
\* A string_view is a window into a text.
View(text) == [text |-> text, ptr |-> 0, len |-> Len(text)]
Chars(v) == Part(v.text, v.ptr, v.len)

RemovePrefix(v, n) == [v EXCEPT !.ptr = @ + n, !.len = @ - n]
RemoveSuffix(v, n) == [v EXCEPT !.len = @ - n]

Substr(v, pos, count) ==
    [v EXCEPT !.ptr = @ + pos,
              !.len = IF count = Npos \/ count > v.len - pos THEN v.len - pos ELSE count]

\* memcmp of the shorter length, and the lengths when it is 0.
Compare(v, w) ==
    LET n == Min({v.len, w.len})
        differs(i) == Chars(v)[i] # Chars(w)[i]
        at == FirstWhere(differs, n)
    IN  IF at <= n THEN Chars(v)[at] - Chars(w)[at] ELSE v.len - w.len

ViewFind(v, w, pos) == FindFrom(Chars(v), Chars(w), pos)

ViewRFind(v, w, pos) ==
    LET start == IF pos # Npos /\ pos < v.len - w.len THEN pos ELSE v.len - w.len
        found == {i \in 0 .. start : Part(Chars(v), i, w.len) = Chars(w)}
    IN  IF w.len = 0 THEN v.len ELSE IF found = {} THEN Npos ELSE Max(found)

\* find_first_of and find_first_not_of.
ViewFindIn(v, class, pos) ==
    LET found == {i \in pos .. v.len - 1 : At(Chars(v), i) \in class}
    IN  IF found = {} THEN Npos ELSE Min(found)
-----------------------------------------------------------------------------
Occurrences(text, pattern) ==
    {i \in 0 .. Len(text) - Len(pattern) : pattern # <<>> /\ Part(text, i, Len(pattern)) = pattern}

\* The three searches report the occurrences of the pattern in order;
\* rabin_karp_search() may miss some.
SearchesRight(text, pattern) ==
    LET all == SetToSortSeq(Occurrences(text, pattern), <)
    IN  /\ KmpSearch(text, pattern) = all
        /\ BoyerMooreSearch(text, pattern) = all
        /\ KmpFindFirst(text, pattern) = FindFrom(text, pattern, 0) \/ pattern = <<>>
        /\ ToSet(RabinKarpSearch(text, pattern)) \subseteq ToSet(all)

\* What "Rabin-Karp search" says: it finds what the others find.
RabinKarpFindsAll(text, pattern) ==
    ToSet(RabinKarpSearch(text, pattern)) = Occurrences(text, pattern)

\* '*' stands for any string, '?' for any character.
Matches(pattern, s) ==
    LET m == Len(pattern)
        n == Len(s)
        from[i \in 1 .. m + 1, j \in 1 .. n + 1] ==
            IF i > m THEN j > n
            ELSE IF pattern[i] = Star
            THEN \E k \in j .. n + 1 : from[i + 1, k]
            ELSE j <= n /\ pattern[i] \in {AnyChar, s[j]} /\ from[i + 1, j + 1]
    IN  from[1, 1]

\* Splitting, joining, trimming and replacing agree with one another.
EditsRight(s, t) ==
    /\ LET tokens == Split(s) IN /\ Split(Join(tokens, <<Blank>>)) = tokens
                                 /\ FlattenSeq(tokens) = SelectSeq(s, LAMBDA c : c # Blank)
    /\ Trim(s) = LTrim(RTrim(s)) /\ Trim(s) = RTrim(LTrim(s))
    /\ Trim(s) # <<>> => Head(Trim(s)) # Blank /\ Last(Trim(s)) # Blank
    /\ LET gone == ReplaceEvery(s, t, <<>>)
       IN  Len(t) = 1 => gone = SelectSeq(s, LAMBDA c : c # t[1])
    /\ t # <<>> => ReplaceEvery(s, t, t) = s
    /\ StartsWith(s, t) <=> EndsWith(Reverse(s), Reverse(t))
    /\ s # <<>> => (IsPalindrome(s) <=> Reverse(s) = s)

\* The edit distance is a metric, and one edit is a distance of one.
DistanceRight(s, t) ==
    LET d == LevenshteinDistance(s, t)
        edits == {Without(s, i, i) : i \in DOMAIN s}
                    \cup {[s EXCEPT ![i] = 1] : i \in DOMAIN s}
    IN  /\ d = LevenshteinDistance(t, s) /\ (d = 0 <=> s = t)
        /\ \A e \in edits : LevenshteinDistance(s, e) <= 1 /\ d <= LevenshteinDistance(e, t) + 1

\* A view answers what the characters it shows answer.
ViewsRight(s, t) ==
    LET v == View(s)
        w == View(t)
    IN  /\ \A n \in 0 .. Len(s) :
              /\ Chars(RemovePrefix(v, n)) = SubSeq(s, n + 1, Len(s))
              /\ Chars(RemoveSuffix(v, n)) = SubSeq(s, 1, Len(s) - n)
              /\ \A count \in {Npos} \cup 0 .. Len(s) :
                    LET u == Substr(v, n, count)
                    IN  u.ptr + u.len <= Len(s) /\ IsPrefix(Chars(u), Chars(RemovePrefix(v, n)))
              /\ ViewFind(v, w, n) = Npos <=> ~\E i \in n .. Len(s) - Len(t) : Part(s, i, Len(t)) = t
              /\ ViewRFind(v, w, n) # Npos /\ t # <<>> => ViewRFind(v, w, n) <= n
        /\ Compare(v, w) = 0 <=> s = t
        /\ (Compare(v, w) < 0) = (Compare(w, v) > 0)
        /\ \A c \in ToSet(t) : ViewFindIn(v, {c}, 0) = ViewFind(v, View(<<c>>), 0)
-----------------------------------------------------------------------------
NewLine == 7
Slash == 2
\* What lies in an array behind the text it holds.
Stray == -7

CopyStr(s, size) == SubSeq(s, 1, Min({Len(s), size - 1}))

\* append() goes on at the first 0.
Appended(s, t, size) == s \o SubSeq(t, 1, Min({Len(t), size - 1 - Len(s)}))
AppendedChar(s, c, size) == IF Len(s) < size - 1 THEN Append(s, c) ELSE s
-----------------------------------------------------------------------------
\* format(): the text so far, and pos, which snprintf moves by the length the
\* part would have had: past the end of the array when it does not fit.
Printed(line, part, size) ==
    [text |-> Appended(line.text, part, size), pos |-> line.pos + Len(part)]

\* safe_copy() tells what it has copied.
Coloured(line, code, size) ==
    LET text == IF line.pos < size THEN Appended(line.text, code, size) ELSE line.text
    IN  [text |-> text, pos |-> line.pos + Len(text) - Len(line.text)]

\* The part of a file name behind its last separator.
Basename(s) == SubSeq(s, Max({0} \cup {i \in DOMAIN s : s[i] = Slash}) + 1, Len(s))

\* The message is left out when no room is left for it, and the end of the
\* line likewise.
WithMessage(line, message, size) ==
    IF line.pos < size - 1 THEN Printed(line, message, size) ELSE line

\* Fault: the end of the line takes the place of the final 0.
EndedLate(line, size) ==
    IF line.pos < size THEN [text |-> Append(line.text, NewLine), pos |-> line.pos + 1] ELSE line
Ended(line, size) ==
    IF line.pos < size - 1 THEN [text |-> Append(line.text, NewLine), pos |-> line.pos + 1] ELSE line

\* parts: what the options show, in order; colour: two codes, or none.
FormatLine(parts, message, colour, size) ==
    LET begun == Coloured([text |-> <<>>, pos |-> 0], colour, size)
        shown == FoldLeft(LAMBDA line, part : Printed(line, part, size), begun, parts)
    IN  Ended(Coloured(WithMessage(shown, message, size), colour, size), size)

\* What a sink copies out of the array: as many bytes as format() answers.
Output(line) == line.text \o Copies(line.pos - Len(line.text), Stray)
-----------------------------------------------------------------------------
\* Bounded texts keep the beginning of what they are given.  A log line that
\* fits comes out whole, with its end; any other is cut at the end of the
\* array, and only a part that did not fit makes format() answer more bytes
\* than there are.
BoundedTextsRight(s, t) ==
    \A size \in 1 .. 6 :
        LET kept == CopyStr(s, size)
            whole == kept \o t
        IN  /\ Appended(kept, t, size) = CopyStr(whole, size)
            /\ Appended(kept, t, size) =
                  FoldLeft(LAMBDA u, c : AppendedChar(u, c, size), kept, t)
            /\ Len(s) < size => kept = s
            /\ \A colour \in {<<>>, <<9>>} :
                  LET line == FormatLine(<<<<8>>, Basename(s)>>, t, colour, size)
                      full == colour \o <<8>> \o Basename(s) \o t \o colour \o <<NewLine>>
                  IN  /\ IsPrefix(line.text, full) \/ line.pos >= size - 1
                      /\ Len(line.text) <= size - 1
                      /\ Len(full) < size => Output(line) = full
                      /\ line.pos > Len(line.text) => Len(full) > size
            /\ \A i \in DOMAIN s : s[i] = Slash => Len(Basename(s)) <= Len(s) - i
=============================================================================
