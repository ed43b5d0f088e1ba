------------------------------ MODULE MCCodecs ------------------------------
(***************************************************************************)
(* The codecs for TLC: the streaming low-bit encoder, the bounded INT8     *)
(* report, the NVFP4 stream and the walk over the small floating-point     *)
(* formats, one of them in each behaviour.  The block codecs of GGUF are   *)
(* compared on the tensors of the low-bit encoder.                         *)
(*                                                                         *)
(* Floats have 10 bits of significand and the exponents -11..-2, halves 6  *)
(* bits and -6..-4: both can underflow and overflow on the values tried,   *)
(* every product fits in TLC's integers, and a normal half and its inverse *)
(* are normal floats, as with binary16 and f32.                            *)
(***************************************************************************)
EXTENDS LowBit, Diagnostics, GgufBlocks, Nvfp4Codec

VARIABLE machine   \* the one that runs

lowBitIdle == <<config, source, group, writer, written, scales, outcome>>
allVars    == <<machine, lowBitIdle, diagnosticsVars, codecVars, smallVars>>

FloatMinExp == -11
FloatMaxExp == -2
BinMinExp   == -6
BinMaxExp   == -4

-----------------------------------------------------------------------------
(* Low-bit calls *)

Largest10 == Float(1023, FloatMaxExp)
Values ==
  {Zero, Float(-1, -11), Float(900, -6), Float(-1023, -7), Largest10, Infinity}
Ordinary == {Zero, Float(10, -11), Float(533, -8), Float(-778, -3), Float(-533, -5)}

\* Shorter and longer than a group; with groups of 3 and 3 bits a group ends inside a byte.
LowBitSources ==
  UNION {{s \in [1..n -> Values] : \A i \in 2..n : s[i] # Infinity} : n \in 0..3}
  \cup [1..4 -> Ordinary] \cup {<<a, Largest10, b, c>> : a, b, c \in Ordinary}
  \cup {<<Float(533, -8), Zero, a, Float(-778, -3), b>> : a \in Values, b \in Values}
LowBitConfigs ==
  {Config(b, 3, "symmetric") : b \in {2, 3, 6, 8}}
  \cup {Config(4, 2, "symmetric"), Config(4, 3, "symmetric"), Config(1, 2, "sign"),
        Config(4, 0, "symmetric"), Config(9, 2, "symmetric"), Config(2, 2, "sign")}

-----------------------------------------------------------------------------
(* Reports *)

Request(a, b, c, chunk) == [replays |-> <<a, b, c>>, chunk |-> chunk, scaleBytes |-> 4]

Sevenths == <<Float(533, -8), Zero, Float(-533, -8), Float(10, -11), Float(900, -8)>>
\* Replays that agree in any chunks; that yield fewer or more values the second or the third
\* time; that yield a value that is not finite, first or later.
ReportRequests ==
  {Request(SubSeq(Sevenths, 1, n), SubSeq(Sevenths, 1, m), SubSeq(Sevenths, 1, k), chunk) :
     n \in 0..5, m \in 3..5, k \in 3..5, chunk \in 0..3}
  \cup {Request(Sevenths, SubSeq(Sevenths, 1, m) \o <<Infinity>>, Sevenths, 2) : m \in 0..4}
  \cup {Request(Sevenths, Sevenths, SubSeq(Sevenths, 1, m) \o <<Infinity>>, 2) : m \in 0..4}
  \cup {Request(<<Infinity>>, Sevenths, Sevenths, 0), Request(<<Zero>>, <<Largest10>>, <<Largest10>>, 1)}

-----------------------------------------------------------------------------
(* NVFP4 calls *)

Call(shape, blocks, radius, first, second) ==
  [shape |-> shape, chunkBlocks |-> blocks, radius |-> radius, replays |-> <<first, second>>]
Same(s, blocks, radius) == Call(<<Len(s)>>, blocks, radius, s, s)

Magnitudes == {0, 1, -2, 3, 5, 7, 11, 29, -64, 100, 190}
Six        == <<0, 0, 2688, 0, 0, 1>>

\* Two blocks, the first with the largest magnitude of the tensor; blocks whose scale has two
\* better neighbours, as good as each other or not, and whose scale rounds to zero; replays
\* that differ in length; values that are not finite in the first pass, in the second, among zeros;
\* a second replay with values that are infinite, too large, or too much for a first of zeros;
\* shapes that are refused.
Nvfp4Calls ==
  {Same(<<2688, -1344, a, b>>, 1, r) : a \in Magnitudes, b \in Magnitudes, r \in {0, 2}}
  \cup {Same(<<5376, 128, a, b>>, 1, r) : a \in Magnitudes, b \in Magnitudes, r \in {1, 3}}
  \cup {Same(<<2688, -1344, 5, 6>>, 1, 1), Same(<<2688, 1344, 14, -17>>, 1, 1), Same(<<2688, 0, 22, 27>>, 1, 1)}
  \cup {Same(<<537600, 0, a, b>>, 1, 0) : a, b \in {0, 1, -2}}
  \cup {Same(<<6, 0, 0, 0, -2688, 1344, 20, 3>>, 2, 1)}
  \cup {Call(<<3, 2>>, 2, 0, Six, second) :
          second \in {SubSeq(Six, 1, 5), Append(Six, 1), <<0, 0, 2688, 0, 0, NaN>>}}
  \cup {Call(<<3, 2>>, 2, 0, SubSeq(Six, 1, 5), Six),
        Call(<<3, 2>>, 2, 0, <<0, 0, 2688, NaN, 0, 1>>, Six),
        Call(<<3, 2>>, 1, 1, Six, <<0, 0, 2688, 0, NaN, 1>>),
        Call(<<3, 2>>, 1, 1, <<0, 0, 2688, Inf, 0, 1>>, Six)}
  \cup {Call(<<4, 2>>, blocks, radius, <<0, 0, 2688, 0, 0, 1, 7, 0>>, <<a, 0, b, 2688, c, 0, 7, d>>) :
          blocks \in 1..2, radius \in 0..1, a \in {0, NaN}, b \in {0, Inf}, c \in {0, -1, Inf}, d \in {0, NaN}}
  \cup {Call(<<4>>, 1, 0, <<2688, 0, 1, 2>>, second) :
          second \in {<<5376, 0, -2689, 1>>, <<Inf, NaN, 1, 2>>, <<1, 0, NaN, Inf>>}}
  \cup {Call(<<4>>, 1, radius, <<0, 0, 0, 0>>, second) :
          radius \in 0..2, second \in {<<0, 0, 0, 16>>, <<16, -32, 2688, 48>>, <<Inf, 0, 0, 0>>, <<0, NaN, -16, Inf>>}}
  \cup {Call(shape, blocks, 1, <<0, 0, 0, 0>>, <<0, 0, 0, 0>>) :
          shape \in {<<2, 2>>, <<2, 3>>, <<0, 2>>, <<>>}, blocks \in 0..1}

-----------------------------------------------------------------------------
\* The machines that do not run are at the start of a fixed call.
LowBitStands ==
  /\ config = Config(4, 2, "symmetric") /\ source = <<>> /\ group = 0
  /\ writer = NewWriter /\ written = <<>> /\ scales = <<>> /\ outcome = Running
ReportStands ==
  /\ request = Request(<<>>, <<>>, <<>>, 1)
  /\ measured = <<>> /\ saturated = 0 /\ report = Measuring
Nvfp4Stands ==
  /\ call = Same(<<0, 0>>, 1, 0)
  /\ phase = "start" /\ amax = 0 /\ next = 0 /\ emitted = <<>> /\ blockScales = <<>>
  /\ verdict = Streaming
WalkStands == format = "e2m1" /\ code = 0

CodecsInit ==
  \/ machine = "lowbit" /\ Init /\ ReportStands /\ Nvfp4Stands /\ WalkStands
  \/ machine = "report" /\ DiagnosticsInit /\ LowBitStands /\ Nvfp4Stands /\ WalkStands
  \/ machine = "nvfp4" /\ CodecInit /\ LowBitStands /\ ReportStands /\ WalkStands
  \/ machine = "walk" /\ SmallInit /\ LowBitStands /\ ReportStands /\ Nvfp4Stands

LowBitSteps == machine = "lowbit" /\ Next /\ UNCHANGED <<machine, diagnosticsVars, codecVars, smallVars>>
ReportSteps == machine = "report" /\ DiagnosticsNext /\ UNCHANGED <<machine, lowBitIdle, codecVars, smallVars>>
Nvfp4Steps  == machine = "nvfp4" /\ CodecNext /\ UNCHANGED <<machine, lowBitIdle, diagnosticsVars, smallVars>>
WalkSteps   == machine = "walk" /\ SmallNext /\ UNCHANGED <<machine, lowBitIdle, diagnosticsVars, codecVars>>

CodecsNext == LowBitSteps \/ ReportSteps \/ Nvfp4Steps \/ WalkSteps
CodecsSpec == CodecsInit /\ [][CodecsNext]_allVars

-----------------------------------------------------------------------------
\* Q8_0 and Q4_0 blocks of a tensor of whole blocks decode close to what they hold.
GgufDecodesClose ==
  machine = "lowbit" /\ group = 0 /\ outcome = Running /\ config.bits = 8 => GgufClose(source)

\* The low-bit formats and the blocks of GGUF decode close to what they hold.
SymmetricDecodesClose == DecodesClose /\ GgufDecodesClose
=============================================================================
