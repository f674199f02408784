---------------------------- MODULE FileContents ----------------------------
(***************************************************************************)
(* What files promise to those who use them through descriptors: each file *)
(* is a sequence of words, and each descriptor has a position in one.  Only*)
(* a write, an open that truncates and a seek past the end change a file,  *)
(* each the file of its descriptor, and where its position says; whatever  *)
(* else happens, a restart too, changes no file.                           *)
(***************************************************************************)
EXTENDS Naturals, Sequences

CONSTANTS Files, Descriptors,
          Values         \* what programs write, without 0

VARIABLES content,       \* file |-> its words, from 1 on
          at             \* descriptor |-> its file and its position, or Closed

Closed   == [pos |-> 0]
At(f, n) == [file |-> f, pos |-> n]

Init ==
  /\ content \in [Files -> Seq(Values \cup {0})]
  /\ at = [d \in Descriptors |-> Closed]

\* The words of file w, made as long as len if it was shorter, with x in from + 1 .. to.
Filled(w, len, from, to, x) ==
  [n \in 1 .. (IF len <= Len(w) THEN Len(w) ELSE len) |->
     IF from < n /\ n <= to THEN x ELSE IF n <= Len(w) THEN w[n] ELSE 0]

-----------------------------------------------------------------------------
(* What a call may make of s, the contents and descriptors before it: t.   *)

\* From the start, or from the end; what was in f may be gone then.
Open(s, t, d, f) ==
  /\ s.at[d] = Closed
  /\ t.content \in {s.content, [s.content EXCEPT ![f] = <<>>]}
  /\ t.at \in {[s.at EXCEPT ![d] = At(f, n)] : n \in {0, Len(t.content[f])}}

\* x is where the position has moved over; a gap before it reads as 0.  (If not a word
\* could be written, there may be the gap alone.)
Write(s, t, d, x) ==
  LET f == s.at[d].file  from == s.at[d].pos  to == t.at[d].pos
  IN  /\ s.at[d] # Closed /\ from <= to
      /\ t.at = [s.at EXCEPT ![d] = At(f, to)]
      /\ \/ t.content = [s.content EXCEPT ![f] = Filled(@, to, from, to, x)]
         \/ from = to /\ t.content = s.content

Seek(s, t, d) ==
  LET f == s.at[d].file  to == t.at[d].pos
  IN  /\ s.at[d] # Closed
      /\ t.at = [s.at EXCEPT ![d] = At(f, to)]
      /\ t.content = [s.content EXCEPT ![f] = Filled(@, to, 0, 0, 0)]

Read(s, t, d) ==
  LET f == s.at[d].file  to == t.at[d].pos
  IN  /\ s.at[d] # Closed /\ s.at[d].pos <= to /\ to <= Len(s.content[f])
      /\ t.at = [s.at EXCEPT ![d] = At(f, to)]
      /\ t.content = s.content

\* close, exit
Close(s, t) ==
  /\ \A d \in Descriptors : t.at[d] \in {s.at[d], Closed}
  /\ t.content = s.content

\* dup, fork: a copy begins with the position of what it is a copy of.
Copy(s, t) ==
  /\ \A d \in Descriptors :
       t.at[d] = s.at[d] \/ (s.at[d] = Closed /\ \E e \in Descriptors : t.at[d] = s.at[e])
  /\ t.content = s.content

\* exec closes descriptors, and seeks in the program f.
Exec(s, t, f) ==
  /\ \A d \in Descriptors : t.at[d] \in {s.at[d], Closed}
  /\ Len(s.content[f]) <= Len(t.content[f])
  /\ t.content = [s.content EXCEPT ![f] = Filled(@, Len(t.content[f]), 0, 0, 0)]

Step(s, t) ==
  \/ Close(s, t) \/ Copy(s, t) \/ \E f \in Files : Exec(s, t, f)
  \/ \E d \in Descriptors :
       \/ Read(s, t, d) \/ Seek(s, t, d)
       \/ \E x \in Values : Write(s, t, d, x)
       \/ \E f \in Files : Open(s, t, d, f)

Next ==
  \E s \in {[content |-> content, at |-> at]}, t \in {[content |-> content', at |-> at']} : Step(s, t)

Spec == Init /\ [][Next]_<<content, at>>
=============================================================================
