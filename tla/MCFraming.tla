------------------------------- MODULE MCFraming -------------------------------
(***************************************************************************)
(* Framing for TLC: every stream made of a short echo, a marker, a short   *)
(* body, the end marker, and either a short trailer of any kind or one of  *)
(* the prompts with at most one more byte behind it.                       *)
(***************************************************************************)
EXTENDS Framing

CONSTANTS MaxEcho, MaxBody, MaxTrailer   \* lengths of the parts

Strings(S, n) == UNION {[1..k -> S] : k \in 0..n}

Prompts == {<<"pylon", ">">>, <<"pylon", "_debug", ">">>}

Trailers ==
  Strings({"LF", "pylon", "_debug", ">"}, MaxTrailer) \cup
  {before \o prompt \o after :
     before \in Strings({"LF"}, 1), prompt \in Prompts,
     after \in Strings({"CR", "pylon", "@", "text", "non-ASCII"}, 1)}

MCStreams ==
  {echo \o <<"@">> \o body \o <<"$", "$">> \o trailer :
     echo \in Strings({"text", "@", "LF"}, MaxEcho),
     body \in Strings({"text", "done", "@", "$", "CR", "LF", "non-ASCII"}, MaxBody),
     trailer \in Trailers}
=============================================================================
