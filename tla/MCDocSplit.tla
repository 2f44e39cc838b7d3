----------------------------- MODULE MCDocSplit -----------------------------
(* Small files for the TLC runs of DocSplit and of StreamSplit inside it.  Bytes are
   "a", "b" (and newline "n", malformed "x" in JSONL files). *)
EXTENDS DocSplit, TLC

Files(alphabet, n) == UNION { [1..k -> alphabet] : k \in 0..n }
InputsOf(files, format, seps, cut, sizes) ==
    { [bytes |-> f, format |-> format, sep |-> s, cut |-> cut, size |-> z] :
          f \in files, s \in seps, z \in sizes }

(* Every file of up to five bytes, separators that cannot overlap themselves,
   targets from one byte up, and JSONL lines, some of them unreadable. *)
CleanInputs ==
    UNION { InputsOf(Files({"a", "b"}, 5), "text", {<<"b">>, <<"a", "b">>, <<>>}, c, {1, 2, 3})
            \cup InputsOf(Files({"a", "n"}, 5), "jsonl", {<<"n">>}, c, {1, 2, 3})
            \cup InputsOf(Files({"a", "n", "x"}, 4), "jsonl", {<<"n">>}, c, {1, 2})
          : c \in Cuts }

(* Compressed files of up to six bytes, separators of zero to three bytes; how the
   file would be cut does not matter. *)
StreamInputs ==
    InputsOf(Files({"a", "b"}, 6), "text",
             {<<>>, <<"b">>, <<"a", "b">>, <<"b", "b">>, <<"a", "a", "b">>}, "regions", {1})
=============================================================================
