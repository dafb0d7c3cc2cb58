--------------------------------- MODULE Markup ---------------------------------
(***************************************************************************)
(* How the services read the text of a post: DiceService, MentionsService, *)
(* the export and the stickers each have a scanner of their own that finds *)
(* the nodes of a text and leaves alone what is code or escaped.           *)
(*                                                                         *)
(* A line is a sequence of atoms.  A node is a roll of dice, a mention or  *)
(* a picture: the scanners differ in what they look for, and in how they   *)
(* tell code, which is what is modelled.                                   *)
(***************************************************************************)
EXTENDS Integers, Sequences, SequencesExt, FiniteSetsExt

CONSTANTS
    MaxLine,   \* bound: atoms of a line
    MaxText    \* bound: lines of a text, nodes of a text

ASSUME MarkupAssumption == MaxLine \in Nat /\ MaxText \in Nat

Atoms == {"word", "node", "tick", "slash"}
Lines == SeqOf(Atoms, MaxLine)

(* Ticks from place i on. *)
Run(line, i) == CHOOSE n \in 0..Len(line) :
    /\ i + n - 1 <= Len(line) /\ \A j \in i..(i + n - 1) : line[j] = "tick"
    /\ i + n <= Len(line) => line[i + n] # "tick"

(* An odd number of slashes comes before. *)
Escaped(line, i) ==
    LET slashes == {j \in 1..(i - 1) : \A k \in j..(i - 1) : line[k] = "slash"}
    IN  Cardinality(slashes) % 2 = 1

StartsRun(line, i) == line[i] = "tick" /\ (i > 1 => line[i - 1] # "tick")
Nodes(line) == {i \in DOMAIN line : line[i] = "node"}

(* Where a run of n ticks that begins at i may be closed, by each reader:   *)
(* at any n ticks, at a run of n ticks, at n ticks that end a run.         *)
Delimiters(line, i, n) == {j \in (i + n)..(Len(line) + 1 - n) : Run(line, j) >= n}
EqualRuns(line, i, n) == {j \in (i + n)..Len(line) : StartsRun(line, j) /\ Run(line, j) = n}
RunEnds(line, i, n) == {j \in (i + n)..Len(line) : Run(line, j) = n}

(* Mutant of Rolled: the scan goes on at the closing ticks, which open code. *)
RolledFromClosing(line) ==
    LET from[i \in 1..(Len(line) + 1)] ==
            IF i > Len(line) THEN {}
            ELSE CASE line[i] = "slash" -> from[Min({i + 2, Len(line) + 1})]
                   [] line[i] = "tick" ->
                        LET closing == Delimiters(line, i, Run(line, i))
                        IN  IF closing = {} THEN from[i + 1] ELSE from[Min(closing)]
                   [] OTHER -> (IF line[i] = "node" THEN {i} ELSE {}) \cup from[i + 1]
    IN  from[1]

(* parseContent: nodes that are rolled; an escape takes the next character *)
(* with it, ticks that do not close are text one by one.                   *)
Rolled(line) ==
    LET from[i \in 1..(Len(line) + 1)] ==
            IF i > Len(line) THEN {}
            ELSE CASE line[i] = "slash" -> from[Min({i + 2, Len(line) + 1})]
                   [] line[i] = "tick" ->
                        LET n == Run(line, i)
                            closing == Delimiters(line, i, n)
                        IN  IF closing = {} THEN from[i + 1] ELSE from[Min(closing) + n]
                   [] OTHER -> (IF line[i] = "node" THEN {i} ELSE {}) \cup from[i + 1]
    IN  from[1]

(* stripInlineCode: what is left of a line; a run that does not close is   *)
(* text as a whole.                                                        *)
WithoutCode(line) ==
    LET from[i \in 1..(Len(line) + 1)] ==
            IF i > Len(line) THEN {}
            ELSE LET n == Run(line, i)
                     closing == EqualRuns(line, i, n)
                 IN  IF n = 0 THEN {i} \cup from[i + 1]
                     ELSE IF closing = {} THEN i..(i + n - 1) \cup from[i + n]
                     ELSE from[Min(closing) + n]
    IN  from[1]

(* extractMentionTokens: who is told. *)
Told(line) == {i \in Nodes(line) \cap WithoutCode(line) : ~Escaped(line, i)}

(* maskMarkdownCode, of the export and of pictures: a run that does not    *)
(* close may still be closed without its first tick.                       *)
Unmasked(line) ==
    LET from[i \in 1..(Len(line) + 1)] ==
            IF i > Len(line) THEN {}
            ELSE LET n == Run(line, i)
                     closing == RunEnds(line, i, n)
                 IN  IF n = 0 \/ closing = {} THEN {i} \cup from[i + 1]
                     ELSE from[Min(closing) + n]
    IN  from[1]

(* replaceVisible and extractStickerTokens: what the archive replaces, and *)
(* which pictures are checked.                                             *)
Replaced(line) == {i \in Nodes(line) \cap Unmasked(line) : ~Escaped(line, i)}

(* Ticks as the editor writes them: none is escaped, and runs are of one   *)
(* length.                                                                 *)
Orderly(line) ==
    LET runs == {i \in DOMAIN line : StartsRun(line, i)}
    IN  /\ \A i \in runs : ~Escaped(line, i)
        /\ \A i, j \in runs : Run(line, i) = Run(line, j)

-------------------------------------------------------------------------------
(* Fences: lines that begin with three or four marks, and what follows.    *)

Fences == [mark : {"tick", "tilde"}, run : 3..4, info : BOOLEAN]
Content == [mark |-> "none", run |-> 0, info |-> TRUE]
Texts == SeqOf(Fences \cup {Content}, MaxText)

Closes(line, fence) == line.mark = fence.mark /\ line.run >= fence.run /\ ~line.info

(* parseContent, stripMarkdownCode and normalizeMarkdownContent: the lines *)
(* that are no code; a fence that nothing closes goes on to the end.       *)
OutsideFences(text) ==
    LET fence[i \in 0..Len(text)] ==    \* the fence that is open after line i
            IF i = 0 THEN Content
            ELSE LET open == fence[i - 1]
                 IN  IF open = Content THEN text[i] ELSE IF Closes(text[i], open) THEN Content ELSE open
    IN  {i \in DOMAIN text : fence[i - 1] = Content /\ text[i] = Content}

(* maskMarkdownCode: a fence is closed by as many marks as it has, or, when *)
(* nothing closes it, by fewer; one that nothing closes is no code.        *)
UnmaskedLines(text) ==
    LET Closing(i, n) == {j \in (i + 1)..Len(text) :
            text[j].mark = text[i].mark /\ text[j].run = n /\ ~text[j].info}
        from[i \in 1..(Len(text) + 1)] ==
            IF i > Len(text) THEN {}
            ELSE LET lengths == {n \in 3..text[i].run : Closing(i, n) # {}}
                 IN  IF text[i] = Content \/ lengths = {} THEN {i} \cup from[i + 1]
                     ELSE from[Min(Closing(i, Max(lengths))) + 1]
    IN  {i \in from[1] : text[i] = Content}

(* Fences of one length, and the last one is closed. *)
Closed(text) ==
    /\ \A i, j \in DOMAIN text : text[i] # Content /\ text[j] # Content => text[i].run = text[j].run
    /\ Len(text) + 1 \in OutsideFences(Append(text, Content))

-------------------------------------------------------------------------------
(* Pictures and stickers of a text that is edited: what was there may stay, *)
(* even when its writer may not add it any more.                           *)

Pictures == SeqOf({"mine", "other"}, MaxText)
Times(x, s) == Cardinality({i \in DOMAIN s : s[i] = x})

(* assertContentAllowed: each picture of the old text stands for one of    *)
(* the new.                                                                *)
NewTokens(current, previous) ==
    LET Take(found, x) ==
            IF found.left[x] > 0 THEN [found EXCEPT !.left[x] = @ - 1] ELSE [found EXCEPT !.new = Append(@, x)]
        kinds == ToSet(current) \cup ToSet(previous)
    IN  FoldLeft(Take, [left |-> [x \in kinds |-> Times(x, previous)], new |-> <<>>], current).new

MayShow(current, previous, allowed) == ToSet(NewTokens(current, previous)) \subseteq allowed

-------------------------------------------------------------------------------
(* The label of a link to a place of the site: written with escapes.       *)

Labels == SeqOf({"word", "slash", "bracket"}, MaxText)

(* formatReferences, and serializeInternalReference *)
EscapedLabel(label) == FlattenSeq([i \in DOMAIN label |-> IF label[i] = "word" THEN <<"word">> ELSE <<"slash", label[i]>>])

(* decodeInternalReferenceLabel *)
DecodedLabel(text) ==
    LET from[i \in 1..(Len(text) + 2)] ==
            IF i > Len(text) THEN <<>>
            ELSE IF text[i] = "slash" /\ i < Len(text) /\ text[i + 1] # "word" THEN <<text[i + 1]>> \o from[i + 2]
            ELSE <<text[i]>> \o from[i + 1]
    IN  from[1]

-------------------------------------------------------------------------------
(* Properties *)

(* What is rolled, who is told, and what an archive replaces, are the same *)
(* nodes in every line that the editor writes: four scanners that are       *)
(* written separately, and take code apart differently.                    *)
LinesAgree ==
    \A line \in Lines : Orderly(line) => Rolled(line) = Told(line) /\ Told(line) = Replaced(line)

(* They take the same lines for code. *)
TextsAgree == \A text \in Texts : Closed(text) => OutsideFences(text) = UnmaskedLines(text)

(* An edit adds nothing that its writer may not add, and never fails for   *)
(* what was there before.                                                  *)
EditsKeep ==
    \A current, previous \in Pictures, allowed \in SUBSET {"mine", "other"} :
        MayShow(current, previous, allowed) <=> \A x \in {"mine", "other"} \ allowed : Times(x, current) <= Times(x, previous)

(* A label is read as it was meant, and ends where its link begins.         *)
LabelsReturn ==
    \A label \in Labels :
        LET text == EscapedLabel(label)
        IN  DecodedLabel(text) = label /\ \A i \in DOMAIN text : text[i] = "bracket" => Escaped(text, i)

ScannersAgree == LinesAgree /\ TextsAgree /\ EditsKeep /\ LabelsReturn
===============================================================================
