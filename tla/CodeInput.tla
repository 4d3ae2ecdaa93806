-------------------------------- MODULE CodeInput ------------------------------
(***************************************************************************)
(* A field for invitations and recovery codes (CrockfordCodeInputDirective)*)
(* and the control of its form.  Whatever is typed or pasted is written    *)
(* anew in groups, and the caret is put where it was among the characters. *)
(***************************************************************************)
EXTENDS Integers, Sequences, Arrays

CONSTANTS
  Letters,     \* of the alphabet of codes
  Unknown,     \* letters that are not: I, L, O, U
  Signs,       \* other characters that may be pasted
  CodeLength,  \* 16
  GroupLength, \* 4
  MaxPaste

Hyphen == "-"
Alphanumeric == Letters \cup Unknown
MaxLength == CodeLength + CodeLength \div GroupLength - 1

VARIABLES
  ui,     \* the field
  server  \* the value of the control in the form

vars == <<ui, server>>

\* As many characters at most.
UpTo(S, n) == UNION {[1 .. m -> S] : m \in 0 .. n}

Fields == UpTo(Alphanumeric \cup {Hyphen}, MaxLength)

TypeOK ==
  /\ server \in Fields
  /\ ui.field \in Fields /\ ui.caret \in 0 .. Len(ui.field) /\ ui.before \in 0 .. MaxLength

\* before (history): how many characters of the code stood before the caret
\* when the browser had edited the field.
Init == server = <<>> /\ ui = [field |-> <<>>, caret |-> 0, before |-> 0]

--------------------------------------------------------------------------------
Least(a, b) == IF a < b THEN a ELSE b

Prefix(s, n) == SubSeq(s, 1, Least(n, Len(s)))

\* Every letter is read as a capital.
Normalize(s) == Prefix(Filter(s, Alphanumeric), CodeLength)

\* A hyphen before every group but the first.
Format(s) ==
  LET raw == Normalize(s)
      n == Len(raw)
      hyphens == IF n = 0 THEN 0 ELSE (n - 1) \div GroupLength
  IN  [i \in 1 .. n + hyphens |->
         IF i % (GroupLength + 1) = 0 THEN Hyphen ELSE raw[i - i \div (GroupLength + 1)]]

Valid(s) == s = <<>> \/ (Len(Normalize(s)) = CodeLength /\ Range(Normalize(s)) \subseteq Letters)

\* The caret after as many characters, without the hyphens that follow them.
NextCursor(formatted, n) == Least(Len(formatted), n + (IF n = 0 THEN 0 ELSE n - 1) \div GroupLength)

\* The browser has made the field s with its caret after n of its characters.
OnInput(s, n) ==
  LET formatted == Format(s)
      before == Len(Normalize(Prefix(s, n)))
  IN  /\ ui' = [field |-> formatted, caret |-> NextCursor(formatted, before), before |-> before]
      /\ server' = formatted

--------------------------------------------------------------------------------
(* The user and the browser, which keeps to maxlength.                     *)

Inserted(t) == SubSeq(ui.field, 1, ui.caret) \o t \o SubSeq(ui.field, ui.caret + 1, Len(ui.field))

\* beforeinput lets nothing but letters and digits through.
Type(c) ==
  /\ c \in Alphanumeric
  /\ Len(ui.field) < MaxLength
  /\ OnInput(Inserted(<<c>>), ui.caret + 1)

\* What is pasted is cut to the room there is.
Paste(t) ==
  LET fits == Prefix(t, MaxLength - Len(ui.field)) IN
  fits # <<>> /\ OnInput(Inserted(fits), ui.caret + Len(fits))

\* The text s without its i-th character.
Without(s, i) == SubSeq(s, 1, i - 1) \o SubSeq(s, i + 1, Len(s))

DeleteBackward == ui.caret > 0 /\ OnInput(Without(ui.field, ui.caret), ui.caret - 1)

DeleteForward == ui.caret < Len(ui.field) /\ OnInput(Without(ui.field, ui.caret + 1), ui.caret)

MoveCaret(n) ==
  /\ n # ui.caret
  /\ ui' = [ui EXCEPT !.caret = n, !.before = Len(Normalize(Prefix(ui.field, n)))]
  /\ UNCHANGED server

\* The form is reset.
WriteValue(s) ==
  /\ server # s
  /\ server' = s
  /\ ui' = [field |-> Format(s), caret |-> Len(Format(s)), before |-> Len(Normalize(s))]

Next ==
  \/ DeleteBackward \/ DeleteForward \/ WriteValue(<<>>)
  \/ \E c \in Alphanumeric : Type(c)
  \/ \E n \in 0 .. Len(ui.field) : MoveCaret(n)
  \/ \E t \in UpTo(Alphanumeric \cup {Hyphen} \cup Signs, MaxPaste) : Paste(t)

--------------------------------------------------------------------------------
\* The field shows the value of the form, in groups that reading and writing
\* anew leave as they are, and of its length at most; the caret stays after
\* the character that it stood after; a code of the full length is valid if
\* its letters are.
SettledIsServers ==
  /\ ui.field = server /\ Format(server) = server /\ Len(server) <= MaxLength
  /\ Len(Normalize(Prefix(ui.field, ui.caret))) = Least(ui.before, Len(Normalize(ui.field)))
  /\ Valid(server) /\ server # <<>> => Len(server) = MaxLength /\ Range(server) \subseteq Letters \cup {Hyphen}
================================================================================
