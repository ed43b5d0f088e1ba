----------------------------- MODULE MCHubFetch -----------------------------
\* Instances of HubFetch: what the Hub may have published, and who asks.
EXTENDS HubFetch

CONSTANTS weights, index, shard1, shard2, config

Revision(files, size, sized, summed, shards) ==
  [files |-> files, size |-> size, sized |-> sized, summed |-> summed, shards |-> shards]

TwoBlocks(files) == [f \in files |-> 2]

Sharded == {index, shard1, config}

\* A single file of known and of unknown size with an extra; an index and a shard,
\* with and without checksums; an index that names a missing shard; no weights.
MCRepos ==
  { Revision({weights}, TwoBlocks({weights}), {}, {weights}, <<>>),
    Revision({weights, config}, TwoBlocks({weights, config}), {weights, config}, {weights, config}, <<>>),
    Revision(Sharded, [f \in Sharded |-> IF f = shard1 THEN 2 ELSE 1], Sharded, Sharded, <<shard1>>),
    Revision(Sharded, [f \in Sharded |-> IF f = shard1 THEN 2 ELSE 1], Sharded, {index, config}, <<shard1>>),
    Revision({index, config}, [f \in {index, config} |-> 1], {index}, {index, config}, <<shard2>>),
    Revision({config}, TwoBlocks({config}), {config}, {config}, <<>>) }

\* One file, for two processes that fetch it at the same time.
MCOneFile == { Revision({weights}, TwoBlocks({weights}), {weights}, {weights}, <<>>) }

\* A configuration file without content.
MCEmptyFile ==
  { Revision({weights, config}, [f \in {weights, config} |-> IF f = config THEN 0 ELSE 1],
             {weights, config}, {weights, config}, <<>>) }

MCExtras == <<config>>
MCNoExtras == <<>>
=============================================================================
