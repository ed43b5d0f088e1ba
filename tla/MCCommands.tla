----------------------------- MODULE MCCommands -----------------------------
(***************************************************************************)
(* The commands for TLC: the command line, what a quantize command writes  *)
(* and checks, and the GGUF export, one of them in each behaviour.  Blocks *)
(* of GGUF are of 4 values and take 5 and 3 bytes, data is aligned to 4    *)
(* bytes, a layer has 2 tensors.                                           *)
(***************************************************************************)
EXTENDS Commands, GgufExport, Container

VARIABLE machine   \* the one that runs

-----------------------------------------------------------------------------
(* Command lines *)

QuantizeLine(format, model, given) == [verb |-> "quantize", format |-> format, model |-> model, given |-> given]
EvalLine(model, given)             == [verb |-> "eval", format |-> "none", model |-> model, given |-> given]

Models == {"directory", "file", "no weights", "hub", "hub, bad name"}

\* Any two of the options that some format refuses.
QuantizeOptions ==
  {"--group-size", "--exclude", "--threads 0", "--device cuda", "--experimental", "--download"}
Pairs(options) == {{a, b} : a \in options, b \in options} \cup {{}}
Calibrations ==
  {{"--calibration"} \cup more : more \in Pairs(
     {"--calibration-data", "--download", "no data file", "no script", "--device unknown", "--exclude",
      "--device cuda"})}
EvalOptions ==
  {"--download", "--dataset", "--revision", "pinned", "no container", "no script", "no interpreter",
   "--device unknown", "no dataset file"}

TheCommandLines ==
  {QuantizeLine(f, m, g) : f \in {"int8", "gguf-q8_0", "int4", "int3", "nvfp4", "unknown"}, m \in Models,
                           g \in Pairs(QuantizeOptions)}
  \cup {QuantizeLine(f, "hub", {"--max-shard-size"} \cup g) : f \in {"int8", "gguf-q8_0", "int4", "nvfp4"},
                                                              g \in {{}, {"bad size"}}}
  \cup {QuantizeLine(f, m, g) : f \in {"int4", "int8"}, m \in Models, g \in Calibrations}
  \cup {EvalLine(m, g) : m \in Models, g \in Pairs(EvalOptions) \cup {{"--download", "--revision", "--dataset"}}}

-----------------------------------------------------------------------------
(* Exports *)

Token(text, id)           == [text |-> text, id |-> id]
AddedToken(text, id, special) == [text |-> text, id |-> id, special |-> special]

Words(vocab, added) == [bpe |-> TRUE, merges |-> TRUE, eos |-> "end", vocab |-> vocab, added |-> added]

Plain == Words(<<Token("a", 0), Token("b", 2)>>, <<AddedToken("end", 1, TRUE)>>)

\* Ids out of range, used twice, defined twice with the same text, left over; an end token that
\* is the model's, added, there twice, or nowhere; a tokenizer of another kind.
Tokenizers ==
  {Words(<<Token("a", i), Token("end", j)>>, <<AddedToken(text, k, special)>>) :
     i \in 0..1, j \in {1, 3, 4}, k \in {0, 2, 4}, text \in {"a", "c", "end"}, special \in BOOLEAN}
  \cup {Plain, Words(<<Token("a", 0)>>, <<>>), [Plain EXCEPT !.bpe = FALSE], [Plain EXCEPT !.merges = FALSE]}

HyperOf(layers, tied) ==
  [modelType |-> "qwen2", hidden |-> 8, heads |-> 2, layers |-> layers, vocab |-> 4, othersPresent |-> TRUE,
   tied |-> tied]
Hypers ==
  {[HyperOf(1, TRUE) EXCEPT !.modelType = "llama"], [HyperOf(1, TRUE) EXCEPT !.hidden = 0],
   [HyperOf(1, TRUE) EXCEPT !.heads = 3], [HyperOf(1, TRUE) EXCEPT !.othersPresent = FALSE]}

Tensor(name, shape) == [name |-> name, shape |-> shape, finite |-> TRUE]
Embed      == Tensor(Name("embed", 0, 0, 0), <<4, 8>>)
Norm       == Tensor(Name("norm", 0, 0, 0), <<3>>)
OutputHead == Tensor(Name("head", 0, 0, 0), <<4, 8>>)
Part(number, zeros, part, shape) == Tensor(Name("layer", number, zeros, part), shape)

OneLayer == <<Norm, Part(0, 0, 1, <<3>>), Embed, Part(0, 0, 2, <<3, 4>>)>>

\* Two layers and a head; a tensor that is missing, twice, unknown, of a layer too many, with
\* leading zeros; shapes of other ranks, of rows that are no whole blocks, empty, not finite.
Exports ==
  {[hyper |-> HyperOf(1, TRUE), tokenizer |-> t, tensors |-> OneLayer, format |-> "q4_0"] : t \in Tokenizers}
  \cup {[hyper |-> h, tokenizer |-> Plain, tensors |-> OneLayer, format |-> "q8_0"] : h \in Hypers}
  \cup {[hyper |-> HyperOf(l, tied), tokenizer |-> Plain, tensors |-> tensors, format |-> f] :
          l \in 1..2, tied \in BOOLEAN, f \in {"q8_0", "q4_0"},
          tensors \in {OneLayer, Tail(OneLayer), OneLayer \o <<OutputHead>>,
                       OneLayer \o <<Part(0, 1, 1, <<3>>)>>,
                       OneLayer \o <<Tensor(Name("other", 0, 0, 0), <<4>>)>>,
                       OneLayer \o <<Part(1, 1, 2, <<5, 4>>), OutputHead, Part(1, 0, 1, <<1>>)>>,
                       SubSeq(OneLayer, 1, 3) \o <<Part(0, 2, 2, <<1, 12>>)>>}}
  \cup {[hyper |-> HyperOf(1, TRUE), tokenizer |-> Plain, format |-> "q4_0",
         tensors |-> Tail(OneLayer) \o <<[Norm EXCEPT !.shape = shape, !.finite = finite]>>] :
          shape \in {<<>>, <<0>>, <<2, 4>>, <<2, 3>>, <<0, 4>>, <<1, 1, 4>>}, finite \in BOOLEAN}

-----------------------------------------------------------------------------
(* Containers *)

\* In byte order.  "a" "!" sorts between "a" and "a.qdata".
Order == <<"!", ".amax_rowwise", ".block_scale", ".global_scale", ".qdata",
           ".rowwise_data", ".rowwise_scale_inv", ".scale", "a", "lm_head">>

Matrix == [dtype |-> "F32", shape |-> <<64, 64>>, values |-> "old"]
Kinds ==
  {Matrix,
   [Matrix EXCEPT !.values = "nan"],
   [dtype |-> "BF16", shape |-> <<1025>>, values |-> "old"],   \* fills no last byte, group or block
   [dtype |-> "F16", shape |-> <<33, 48>>, values |-> "old"],  \* fits NVFP4, not TE
   [dtype |-> "F32", shape |-> <<0, 64>>, values |-> "old"],   \* no bytes
   [dtype |-> "I64", shape |-> <<4>>, values |-> "old"]}

\* One tensor, two whose outputs may collide or lie side by side, an excluded one
\* next to one that is not, and three.
Sources ==
  UNION {[names -> Kinds] : names \in
    {{}, {<<"a">>}, {<<"lm_head">>}, {<<"a">>, <<"a", "!">>}, {<<"a">>, <<"a", ".qdata">>}}}
  \cup {f \in [{<<"a">>, <<"a", "!">>, <<"lm_head">>} -> Kinds] :
          /\ f[<<"a">>] = Matrix
          /\ f[<<"a", "!">>].dtype \in {"F16", "I64"}
          /\ f[<<"lm_head">>] = Matrix \/ f[<<"lm_head">>].dtype \in {"BF16", "I64"}}

\* 4132 bytes are exactly a quantized matrix in INT8 and four 64-bit integers.
QuantizeJob(format, minimum, limit, suffix) ==
  [format |-> format, minimum |-> minimum, limit |-> limit, suffix |-> suffix]
QuantizeJobs ==
  {QuantizeJob(f, 1024, l, ".safetensors") : f \in Formats, l \in {0, 1, 4132}}
  \cup {QuantizeJob(f, 0, l, ".safetensors") : f \in {"int8", "int4"}, l \in {0, 4132}}

\* The same matrix with other values, and other shapes, one of them of as many
\* packed bytes as 1025 values.
Changed ==
  {[Matrix EXCEPT !.values = "new"],
   [dtype |-> "BF16", shape |-> <<1026>>, values |-> "new"],
   [dtype |-> "I64", shape |-> <<4>>, values |-> "new"]}

-----------------------------------------------------------------------------
AllVars == <<machine, commandVars, exportVars, vars>>

\* The machines that do not run are at the start of a fixed call.
CommandStands ==
  /\ line = EvalLine("directory", {}) /\ phase = "arguments" /\ result = "running"
  /\ fetched = FALSE /\ scratch = {} /\ stuck = {} /\ output = "none"
ExportStands ==
  /\ export = [hyper |-> HyperOf(1, TRUE), tokenizer |-> Plain, tensors |-> OneLayer, format |-> "q8_0"]
  /\ mapped = <<>> /\ file = <<>> /\ vocabulary = <<>> /\ ending = Converting
ContainerStands == Init /\ source = <<>> /\ job = QuantizeJob("int8", 0, 0, ".safetensors")

MachineInit ==
  \/ machine = "command" /\ CommandInit /\ ExportStands /\ ContainerStands
  \/ machine = "export" /\ ExportInit /\ CommandStands /\ ContainerStands
  \/ machine = "container" /\ Init /\ CommandStands /\ ExportStands

CommandSteps   == machine = "command" /\ CommandNext /\ UNCHANGED <<machine, exportVars, vars>>
ExportSteps    == machine = "export" /\ ExportNext /\ UNCHANGED <<machine, commandVars, vars>>
ContainerSteps == machine = "container" /\ Next /\ UNCHANGED <<machine, commandVars, exportVars>>

MachineNext == CommandSteps \/ ExportSteps \/ ContainerSteps
MachineSpec == MachineInit /\ [][MachineNext]_AllVars
=============================================================================
