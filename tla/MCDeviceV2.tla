---------------------------- MODULE MCDeviceV2 ----------------------------
(***************************************************************************)
(* Deployments of the second device transport for TLC.                     *)
(***************************************************************************)
EXTENDS DeviceV2

\* A slice of whole rows, and one of columns 1 .. 2.
Rows(rows, columns) ==
  [shape |-> <<rows, columns>>, slices |-> <<<<0, rows>>, <<0, columns>>>>, spans |-> <<>>]
Columns(rows, columns) ==
  [shape |-> <<rows, columns>>, slices |-> <<<<0, rows>>, <<1, 3>>>>, spans |-> <<>>]

\* The same, of a tensor assembled from spans.
Spans(op, spans) == [op EXCEPT !.spans = spans]

Base ==
  [world |-> 3, senders |-> {2}, ops |-> <<>>, annotated |-> TRUE,
   node |-> [r \in 0 .. 7 |-> 0], links |-> [r \in 0 .. 7 |-> 1],
   channels |-> 1, maxWorks |-> 2, alignment |-> 2,
   depth |-> 2, step |-> 1, chunk |-> 2, ginDepth |-> 2, ginStep |-> 2, ginChunk |-> 4,
   connections |-> 1, launches |-> 1, timeout |-> FALSE, kernels |-> TRUE]

\* Two senders and two receivers, one work per batch, uneven streams.
Crossed ==
  [Base EXCEPT !.world = 4, !.senders = {2, 3}, !.maxWorks = 1,
     !.ops = <<2, 0>> :> <<Rows(1, 3)>> @@ <<2, 1>> :> <<Rows(1, 1)>>
          @@ <<3, 0>> :> <<Rows(1, 1)>> @@ <<3, 1>> :> <<Rows(1, 1)>>]

\* One sender and two receivers, spans, two channels.
FanOut ==
  [Base EXCEPT !.channels = 2, !.depth = 1,
     !.ops = <<2, 0>> :> <<Spans(Columns(1, 3), <<2, 1>>)>> @@ <<2, 1>> :> <<Rows(1, 2)>>]

\* A pair and its second launch.
Again ==
  [Base EXCEPT !.world = 2, !.senders = {1}, !.channels = 2, !.launches = 2,
     !.ops = <<1, 0>> :> <<Rows(1, 4)>>]

\* A pair on two nodes, two launches: six steps on a FIFO of four.
Remote ==
  [Base EXCEPT !.world = 2, !.senders = {1}, !.node = [r \in 0 .. 7 |-> r],
     !.ginDepth = 4, !.ginStep = 1, !.ginChunk = 3, !.launches = 2,
     !.ops = <<1, 0>> :> <<Rows(1, 5)>>]

\* A pair whose waits time out.
Impatient ==
  [Base EXCEPT !.world = 2, !.senders = {1}, !.timeout = TRUE,
     !.ops = <<1, 0>> :> <<Rows(1, 3)>>]

\* The same on two nodes.
ImpatientRemote ==
  [Remote EXCEPT !.timeout = TRUE, !.launches = 1, !.ginDepth = 1, !.ops = <<1, 0>> :> <<Rows(1, 2)>>]

\* A sender with a receiver on its node and one on another.
Mixed ==
  [Base EXCEPT !.node = [r \in 0 .. 7 |-> IF r = 1 THEN 1 ELSE 0], !.ginStep = 1, !.ginDepth = 1,
     !.ops = <<2, 0>> :> <<Rows(1, 1)>> @@ <<2, 1>> :> <<Rows(1, 2)>>]

\* Plans only: six ranks, a channel for several peers, parts that are not
\* whole steps, and spans of the reader's rows; then two senders and two
\* receivers on four nodes whose streams are equally long.
Wide ==
  [Base EXCEPT !.world = 6, !.senders = {3, 4, 5}, !.channels = 8, !.maxWorks = 2,
     !.links = [r \in 0 .. 7 |-> 2], !.step = 2, !.chunk = 4, !.kernels = FALSE,
     !.ops = [q \in {3, 4, 5} \X {0, 1, 2} |->
                <<Spans(Rows(2, q[1]), <<q[1] + 1, q[1] - 1>>), Spans(Columns(q[2] + 2, 4), <<5, 1, 4 * q[2] + 2>>)>>]]

Square ==
  [Base EXCEPT !.world = 4, !.senders = {2, 3}, !.channels = 8, !.node = [r \in 0 .. 7 |-> r],
     !.ginStep = 2, !.ginChunk = 2, !.kernels = FALSE,
     !.ops = [q \in {2, 3} \X {0, 1} |-> <<Rows(2, 9)>>]]

PassDeployments ==
  {Crossed, FanOut, Again, Remote, Mixed, Impatient, ImpatientRemote, Wide, Square}

\* One sender and two receivers, each on a node of its own.
GinFanOut ==
  [Base EXCEPT !.channels = 8, !.node = [r \in 0 .. 7 |-> r], !.timeout = TRUE,
     !.ops = <<2, 0>> :> <<Rows(1, 9)>> @@ <<2, 1>> :> <<Rows(1, 3)>>]

GinDeployments == {GinFanOut}
=============================================================================
