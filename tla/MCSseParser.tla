----------------------------- MODULE MCSseParser ------------------------------
(* SseParser on every stream of up to four lines: blank, blank with CR,      *)
(* comment, another field, and data lines short, long, empty and [DONE].     *)
EXTENDS SseParser
CONSTANT MaxLines
MCLines ==
  {<<>>, <<"cr">>, <<":", "x">>, <<"x", "da", "ta:">>,
   <<"da", "ta:", "sp", "x">>, <<"da", "ta:", "x", "x", "cr">>,
   <<"da", "ta:">>, <<"da", "ta:", "[DONE]">>}
MCStreams ==
  {FlattenSeq([k \in DOMAIN lines |-> Append(lines[k], "lf")]) :
     lines \in UNION {[1..n -> MCLines] : n \in 1..MaxLines}}
=============================================================================
