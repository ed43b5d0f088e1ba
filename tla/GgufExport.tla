----------------------------- MODULE GgufExport -----------------------------
(***************************************************************************)
(* The Qwen2 export (gguf_qwen2.rs) and the GGUF file it builds            *)
(* (gguf_writer.rs).                                                       *)
(*                                                                         *)
(* Names are records: a layer's tensor has the layer number as it is       *)
(* written, which may have leading zeros.  A file is its records and the   *)
(* places of their data; sizes count the data bytes, and the header is as  *)
(* long as its records.  The writing of the bytes is in Publish.           *)
(***************************************************************************)
EXTENDS Results, FiniteSets

CONSTANTS
  PartCount,       \* kinds of tensors of a layer: 12, numbered in the order of their GGUF names
  BlockElements,   \* 32 in the code
  Alignment,       \* 32
  Q8Bytes, Q4Bytes,   \* bytes of a block: 34 and 18
  Checkpoints      \* exports tried: [hyper, tokenizer, tensors, format]

VARIABLES
  export,     \* the arguments and the model's files
  mapped,     \* [gguf, name, shape], sorted
  file,       \* tensors added to the GgufFile
  vocabulary, \* the converted tokenizer
  ending

exportVars == <<export, mapped, file, vocabulary, ending>>

Converting == [kind |-> "converting"]

-----------------------------------------------------------------------------
(* config.json *)

\* A field that is missing, of the wrong type or not positive is 0.
HyperError(h) ==
  IF h.modelType # "qwen2" THEN "UnsupportedArchitecture"
  ELSE IF h.hidden = 0 \/ h.heads = 0 THEN "MissingField"
  ELSE IF h.hidden % h.heads # 0 THEN "ShapeMismatch"
  ELSE IF h.layers = 0 \/ h.vocab = 0 \/ ~h.othersPresent THEN "MissingField"
  ELSE "none"

-----------------------------------------------------------------------------
(* tokenizer.json: tokens are model values; ids count from 0 *)

Unused == [text |-> "placeholder", type |-> "unused"]

\* The vocabulary of the model, in order of its tokens: [text, id].
WithVocab(entries, size) ==
  LET place(acc, e) ==
        IF Failed(acc) THEN acc
        ELSE IF e.id >= size THEN Error("IdOutside", e.id)
        ELSE IF acc.value[e.id + 1] # Unused THEN Error("IdTwice", e.id)
        ELSE Success([acc.value EXCEPT ![e.id + 1] = [text |-> e.text, type |-> "normal"]])
  IN FoldLeft(place, Success([i \in 1..size |-> Unused]), entries)

\* Bug: an added token replaces whatever token has its id.
BuggyWithAdded(tokens, entries, size) ==
  LET place(acc, e) ==
        IF Failed(acc) THEN acc
        ELSE IF e.id >= size THEN Error("IdOutside", e.id)
        ELSE Success([acc.value EXCEPT ![e.id + 1] =
               [text |-> e.text, type |-> IF e.special THEN "control" ELSE "user"]])
  IN FoldLeft(place, Success(tokens), entries)

\* The added tokens, [text, id, special]: one may only repeat the token its id already has.
WithAdded(tokens, entries, size) ==
  LET place(acc, e) ==
        IF Failed(acc) THEN acc
        ELSE IF e.id >= size THEN Error("IdOutside", e.id)
        ELSE IF acc.value[e.id + 1] # Unused /\ acc.value[e.id + 1].text # e.text THEN Error("IdTwice", e.id)
        ELSE Success([acc.value EXCEPT ![e.id + 1] =
               [text |-> e.text, type |-> IF e.special THEN "control" ELSE "user"]])
  IN FoldLeft(place, Success(tokens), entries)

\* The end token is the first token with its text.
EosId(tokens, text) ==
  CHOOSE i \in 0..(Len(tokens) - 1) :
    tokens[i + 1].text = text /\ \A j \in 0..(i - 1) : tokens[j + 1].text # text

Tokenizer(t, size) ==
  LET vocab == WithVocab(t.vocab, size)
      all   == WithAdded(vocab.value, t.added, size)
  IN IF ~t.bpe THEN Error("Tokenizer", 0)
     ELSE IF Failed(vocab) THEN vocab
     ELSE IF Failed(all) THEN all
     ELSE IF ~t.merges THEN Error("Tokenizer", 0)
     ELSE IF \A i \in 1..size : all.value[i].text # t.eos THEN Error("NoEndToken", 0)
     ELSE Success([tokens |-> all.value, eos |-> EosId(all.value, t.eos)])

-----------------------------------------------------------------------------
(* Names *)

\* Of a checkpoint: "embed", "norm", "head", "layer" with the number and the leading zeros of
\* its digits, and a part; or another name.
Name(kind, number, zeros, part) == [kind |-> kind, number |-> number, zeros |-> zeros, part |-> part]

Gguf(kind, layer, part) == [kind |-> kind, layer |-> layer, part |-> part]
NoName                  == Gguf("none", 0, 0)

\* gguf_name: the leading zeros of a layer's number are lost.
GgufName(name, layers) ==
  IF name.kind \in {"embed", "norm", "head"} THEN Gguf(name.kind, 0, 0)
  ELSE IF name.kind = "layer" /\ name.number < layers /\ name.part \in 1..PartCount
       THEN Gguf("layer", name.number, name.part)
  ELSE NoName

RequiredNames(h) ==
  {Gguf("embed", 0, 0), Gguf("norm", 0, 0)}
  \cup (IF h.tied THEN {} ELSE {Gguf("head", 0, 0)})
  \cup {Gguf("layer", n, p) : n \in 0..(h.layers - 1), p \in 1..PartCount}

\* The order of the texts: blk.*, output.weight, output_norm.weight, token_embd.weight, for
\* layers of one digit; the same GGUF name twice is ordered by the checkpoint's name.
KindRank(kind) == CASE kind = "layer" -> 0 [] kind = "head" -> 1 [] kind = "norm" -> 2 [] OTHER -> 3
Before(a, b) ==
  LET x == a.gguf  y == b.gguf
  IN \/ KindRank(x.kind) < KindRank(y.kind)
     \/ KindRank(x.kind) = KindRank(y.kind) /\ x.layer < y.layer
     \/ x.kind = y.kind /\ x.layer = y.layer /\ x.part < y.part
     \/ x = y /\ a.name.zeros > b.name.zeros

-----------------------------------------------------------------------------
(* Tensors *)

ElementCount(shape) == FoldLeft(LAMBDA n, d : n * d, 1, shape)

\* Bug: the vocabulary matrices take the format of the other weights.
BuggyFormatOf(format, gguf) == format

\* for_tensor: a Q4_0 file keeps its vocabulary matrices at 8 bits.
FormatOf(format, gguf) == IF gguf.kind \in {"embed", "head"} THEN "q8_0" ELSE format

\* quantize_shaped: rows of whole blocks, and finite values.
Quantizable(t) ==
  (\A i \in DOMAIN t.shape : t.shape[i] > 0) /\ t.shape[Len(t.shape)] % BlockElements = 0 /\ t.finite

BlockBytes(type) == IF type = "q8_0" THEN Q8Bytes ELSE Q4Bytes

Encode(t, format) ==
  LET type == FormatOf(format, t.gguf)
  IN CASE Len(t.shape) = 2 /\ Quantizable(t) ->
            Success([type |-> type, bytes |-> (ElementCount(t.shape) \div BlockElements) * BlockBytes(type)])
       [] Len(t.shape) = 2 /\ ~Quantizable(t) -> Error("Quantize", 0)
       [] Len(t.shape) = 1 -> Success([type |-> "f32", bytes |-> 4 * ElementCount(t.shape)])
       [] OTHER -> Error("ShapeMismatch", 0)

\* add_tensor: unique names, and no dimension of zero.
AddError(t) ==
  IF \E i \in DOMAIN file : file[i].gguf = t.gguf THEN "DuplicateTensor"
  ELSE IF t.shape = <<>> \/ \E i \in DOMAIN t.shape : t.shape[i] = 0 THEN "InvalidDimensions"
  ELSE "none"

AlignUp(n) == DivCeil(n, Alignment) * Alignment

\* Bug: the next offset is the end of the data before it, as it is.
BuggyOffsets(tensors) ==
  FoldLeft(LAMBDA acc, t : [offsets |-> Append(acc.offsets, acc.cursor), cursor |-> acc.cursor + t.bytes],
           [offsets |-> <<>>, cursor |-> 0], tensors)

\* to_bytes: offsets from the start of the data, each aligned.
Offsets(tensors) ==
  FoldLeft(LAMBDA acc, t : [offsets |-> Append(acc.offsets, AlignUp(acc.cursor)),
                            cursor  |-> AlignUp(acc.cursor) + t.bytes],
           [offsets |-> <<>>, cursor |-> 0], tensors)

-----------------------------------------------------------------------------
(* export_qwen2 *)

ExportInit ==
  /\ export \in Checkpoints
  /\ mapped = <<>> /\ file = <<>> /\ vocabulary = <<>> /\ ending = Converting

MappedTensors ==
  [i \in DOMAIN export.tensors |->
     [gguf |-> GgufName(export.tensors[i].name, export.hyper.layers)] @@ export.tensors[i]]

ConvertError ==
  LET h     == export.hyper
      words == Tokenizer(export.tokenizer, h.vocab)
  IN IF HyperError(h) # "none" THEN Error(HyperError(h), 0)
     ELSE IF Failed(words) THEN words
     ELSE IF \E i \in DOMAIN MappedTensors : MappedTensors[i].gguf = NoName THEN Error("UnmappedTensor", 0)
     ELSE IF \E r \in RequiredNames(h) : \A i \in DOMAIN MappedTensors : MappedTensors[i].gguf # r
          THEN Error("MissingTensor", 0)
     ELSE Success(words.value)

\* The configuration, the tokenizer, the names and their order.
Convert ==
  /\ ending = Converting /\ mapped = <<>>
  /\ IF Failed(ConvertError) THEN ending' = ConvertError /\ UNCHANGED <<mapped, vocabulary>>
     ELSE /\ vocabulary' = <<ConvertError.value>>
          /\ mapped' = SortSeq(MappedTensors, Before)
          /\ ending' = ending
  /\ UNCHANGED <<export, file>>

\* The next tensor is read, encoded and added.
AddTensor ==
  /\ ending = Converting /\ Len(file) < Len(mapped)
  /\ LET t       == mapped[Len(file) + 1]
         encoded == Encode(t, export.format)
     IN IF Failed(encoded) THEN ending' = encoded /\ file' = file
        ELSE IF AddError(t) # "none" THEN ending' = Error(AddError(t), 0) /\ file' = file
        ELSE file' = Append(file, encoded.value @@ t) /\ ending' = ending
  /\ UNCHANGED <<export, mapped, vocabulary>>

Serialize ==
  /\ ending = Converting /\ mapped # <<>> /\ Len(file) = Len(mapped)
  /\ ending' = Success(Offsets(file).offsets)
  /\ UNCHANGED <<export, mapped, file, vocabulary>>

ExportNext == Convert \/ AddTensor \/ Serialize

-----------------------------------------------------------------------------
(* Properties *)

Exported == ending.kind = "ok"

\* Every tensor of the checkpoint is in the file once ("refusing to drop it",
\* gguf_qwen2.rs:141), every tensor the loader needs is there, and two checkpoint tensors
\* never share a GGUF name.
TensorsAreWhole ==
  /\ Len(file) = Len(export.tensors)
  /\ \A t \in ToSet(export.tensors) :
       Cardinality({i \in DOMAIN file : file[i].name = t.name /\ file[i].shape = t.shape}) = 1
  /\ RequiredNames(export.hyper) \subseteq {file[i].gguf : i \in DOMAIN file}
  /\ \A i, j \in DOMAIN file : file[i].gguf = file[j].gguf => i = j
  /\ \A i \in DOMAIN file : file[i].gguf.kind \in {"embed", "head"} => file[i].type \in {"q8_0", "f32"}

\* The data of every tensor is aligned, and after that of the tensor before it.
DataIsPlaced ==
  LET offsets == ending.value
  IN \A i \in DOMAIN file :
       /\ offsets[i] % Alignment = 0
       /\ i > 1 => offsets[i] >= offsets[i - 1] + file[i - 1].bytes

\* One entry per embedding row; every token of the model and every added one keeps its id,
\* the ids nobody defines are unused, and the end token is the one the configuration names.
TokensKeepTheirIds ==
  LET t      == export.tokenizer
      tokens == vocabulary[1].tokens
      defined == {e.id : e \in ToSet(t.vocab)} \cup {e.id : e \in ToSet(t.added)}
  IN /\ Len(tokens) = export.hyper.vocab
     /\ \A e \in ToSet(t.vocab) \cup ToSet(t.added) : tokens[e.id + 1].text = e.text
     /\ \A i \in DOMAIN tokens : tokens[i].type = "unused" <=> (i - 1) \notin defined
     /\ tokens[vocabulary[1].eos + 1].text = t.eos

\* What is written is a whole model.
ExportIsWhole == Exported => TensorsAreWhole /\ DataIsPlaced /\ TokensKeepTheirIds
=============================================================================
