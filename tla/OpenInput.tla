------------------------------ MODULE OpenInput ------------------------------
(***************************************************************************)
(* Reading SafeTensors files back: `parse_tensors' of safetensors.rs and   *)
(* the index checks of sharded.rs, as predicates, and the two readers of   *)
(* manifests (`read_nvfp4_safetensors', `read_te_container_manifest').     *)
(*                                                                         *)
(* A file is a record: `header' maps names to [dtype, shape, start, end],  *)
(* `data' is the data section as the sequence of pieces written, each with *)
(* its length and what it was made from, `manifest' maps the names of the  *)
(* file's source tensors to [action, tensor].                              *)
(***************************************************************************)
EXTENDS Layout

DataLength(file) == SumOf([i \in DOMAIN file.data |-> file.data[i].bytes])

\* serde_json's object and BTreeMap iterate in byte order; the sort by start is
\* stable, so tensors of no bytes keep that order.
StartLess(header, m, n) ==
  \/ header[m].start < header[n].start
  \/ header[m].start = header[n].start /\ NameLess(m, n)

InDataOrder(header) ==
  SetToSortSeq(DOMAIN header, LAMBDA m, n : StartLess(header, m, n))

\* `parse_tensors': every range fits the data and the shape, and the ranges
\* follow one another from the first byte to the last.
Parses(file) ==
  LET header == file.header
      order  == InDataOrder(header)
      cursor(i) == IF i = 1 THEN 0 ELSE header[order[i - 1]].end
  IN  /\ \A n \in DOMAIN header :
           LET h == header[n]
           IN  /\ h.start <= h.end /\ h.end <= DataLength(file)
               /\ h.end - h.start = Bytes(h)
      /\ \A i \in DOMAIN order : header[order[i]].start = cursor(i)
      /\ cursor(Len(order) + 1) = DataLength(file)

\* `tensor_bytes': what the bytes of a tensor were made from.
Content(file, n) ==
  LET h == file.header[n]
      from(i) == SumOf([j \in 1..(i - 1) |-> file.data[j].bytes])
  IN  {file.data[i].made : i \in {j \in DOMAIN file.data :
         file.data[j].bytes > 0 /\ from(j) < h.end /\ h.start < from(j) + file.data[j].bytes}}

-----------------------------------------------------------------------------
(***************************************************************************)
(* An output on disk: `files', and, for a directory, `index' with a map    *)
(* from names to positions in `files' and the total size.  Shards are      *)
(* numbered in their names, so their order is that of the positions.       *)
(***************************************************************************)

\* `open_index'.
OpensIndex(files, index) ==
  LET used == Range(index.map)
  IN  /\ used \subseteq DOMAIN files
      /\ \A s \in used :
           /\ Parses(files[s])
           /\ DOMAIN files[s].header = {n \in DOMAIN index.map : index.map[n] = s}
      /\ index.total = SumOf([s \in DOMAIN files |->
                                IF s \in used THEN DataLength(files[s]) ELSE 0])

\* `SafetensorsInput::open' on a file, by its suffix, or on a directory of ours.
Opens(files, index, suffix) ==
  CASE suffix = "directory"   -> OpensIndex(files, index)
    [] suffix = ".index.json" -> FALSE    \* a SafeTensors file is not a JSON index
    [] OTHER                  -> Parses(files[1])

\* The file of an opened output that holds a tensor.
Holder(files, n) == files[CHOOSE s \in DOMAIN files : n \in DOMAIN files[s].header]

Catalog(files) == UNION {DOMAIN files[s].header : s \in DOMAIN files}

-----------------------------------------------------------------------------
(***************************************************************************)
(* The manifest readers.                                                   *)
(***************************************************************************)
Described(header, o) ==
  o.name \in DOMAIN header /\ header[o.name].dtype = o.dtype /\ header[o.name].shape = o.shape

\* Every tensor and field listed is there with the dtype and the shape that
\* follow from the manifest, no two records share one, and nothing else is in
\* the file.
ReadsManifest(format, file) ==
  LET m == file.manifest
      quantized == {n \in DOMAIN m : m[n].action = "quantized"}
      expected(n) == Range(OutputsOf(format, n, m[n].tensor, quantized))
  IN  /\ \A n \in quantized :
           LET t == m[n].tensor
           IN  /\ t.shape # <<>> /\ NoZero(t) /\ Last(t.shape) % Block = 0
               /\ format = "nvfp4" => Floating(t)
               /\ format = "te" => Len(t.shape) = 2 /\ t.shape[1] % Block = 0
      /\ \A n \in DOMAIN m : \A o \in expected(n) : Described(file.header, o)
      /\ \A p, q \in DOMAIN m : p # q =>
           {o.name : o \in expected(p)} \cap {o.name : o \in expected(q)} = {}
      /\ DOMAIN file.header = UNION {{o.name : o \in expected(n)} : n \in DOMAIN m}
=============================================================================
