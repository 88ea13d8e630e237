------------------------------- MODULE Stream -------------------------------
(***************************************************************************)
(* chutil/src/stream.c.  An in stream is the text it delivers and the      *)
(* position of the next character; an out stream is the text it was given. *)
(* The look-ahead lah of a file is the character at the position.  A file  *)
(* may fail: fgetc then gives EOF, which the code takes for the end, and   *)
(* fputc gives EOF, which is a STREAM_ERROR.                               *)
(***************************************************************************)
EXTENDS Integers, Sequences

\* A char is signed.  STREAM_EMPTY stands for "no character".
Char == -128..127
STREAM_EMPTY == 256

\* is_peek_char, and the position that is_next_char leaves behind.
PeekChar(text, at) == IF at > Len(text) THEN STREAM_EMPTY ELSE text[at]
NextChar(text, at) == IF at > Len(text) THEN at ELSE at + 1

\* What a file with this text delivers, whenever reading it stops.
Delivered(text) == {SubSeq(text, 1, n) : n \in 0..Len(text)}

\* os_puts, or any row of OS_PUTC and OS_PUTS: the first put that fails is the
\* last one tried.
Puts(output, chars, good) == output \o SubSeq(chars, 1, good)

============================================================================
