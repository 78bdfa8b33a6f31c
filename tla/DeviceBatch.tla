---------------------------- MODULE DeviceBatch ----------------------------
(***************************************************************************)
(* How the device transports bind the operations of a transfer plan to     *)
(* tasks: transfer/nccl_device_v2.py (_build_send_batch, _build_recv_batch)*)
(* and transfer/tensor_layout.py.                                          *)
(*                                                                         *)
(* An operation copies a rectangle of a training tensor into a rectangle   *)
(* of the same size of an inference tensor, in row-major order. The        *)
(* training tensor may be a logical one, assembled from contiguous spans   *)
(* of another (q, k and v out of Megatron's fused qkv): the writer then    *)
(* has one task per piece of a span, and a rank that has annotated its     *)
(* plan knows the spans. An operation is a record                          *)
(*                                                                         *)
(*   shape   <<rows, columns>> of the training tensor                      *)
(*   slices  <<<<first, past>>, <<first, past>>>>: train_slices            *)
(*   spans   span_numels of the training tensor, <<>> for a plain one      *)
(*                                                                         *)
(* An element has one byte. Weights have two dimensions.                   *)
(***************************************************************************)
EXTENDS Integers, SequencesExt

\* The sum of a sequence of numbers.
Total(lengths) ==
  LET sum[i \in 0 .. Len(lengths)] == IF i = 0 THEN 0 ELSE sum[i - 1] + lengths[i]
  IN  sum[Len(lengths)]

Concat(seqs) ==
  LET all[i \in 0 .. Len(seqs)] == IF i = 0 THEN <<>> ELSE all[i - 1] \o seqs[i]
  IN  all[Len(seqs)]
-----------------------------------------------------------------------------
(***************************************************************************)
(* tensor_layout.py.                                                       *)
(***************************************************************************)

\* _selected_flat_runs: <<start, length>> of the runs of a rectangle. Rows
\* that are whole are one run.
SelectedFlatRuns(shape, slices) ==
  LET rows    == slices[1]
      columns == slices[2]
  IN  CASE rows[2] <= rows[1] \/ columns[2] <= columns[1] -> <<>>
        [] columns = <<0, shape[2]>> ->
             <<<<rows[1] * shape[2], (rows[2] - rows[1]) * shape[2]>>>>
        [] OTHER ->
             [i \in 1 .. rows[2] - rows[1] |->
                <<(rows[1] + i - 1) * shape[2] + columns[1],
                  columns[2] - columns[1]>>]

\* The pieces <<span, offset in the span, length>> of one run.
RunFragments(run, spans) ==
  LET Start(j)  == Total(SubSeq(spans, 1, j - 1))
      Begin(j)  == IF Start(j) < run[1] THEN run[1] ELSE Start(j)
      Past(j)   == IF Start(j) + spans[j] < run[1] + run[2]
                   THEN Start(j) + spans[j] ELSE run[1] + run[2]
      touched   == SetToSortSeq({j \in DOMAIN spans : Begin(j) < Past(j)}, <)
  IN  [i \in DOMAIN touched |->
         <<touched[i], Begin(touched[i]) - Start(touched[i]),
           Past(touched[i]) - Begin(touched[i])>>]

\* slice_layout_fragments, of a tensor that is one span when it has none.
SliceLayoutFragments(op) ==
  LET spans == IF op.spans = <<>> THEN <<op.shape[1] * op.shape[2]>> ELSE op.spans
      runs  == SelectedFlatRuns(op.shape, op.slices)
  IN  Concat([i \in DOMAIN runs |-> RunFragments(runs[i], spans)])

\* The numel of the receiving view.
OpBytes(op) ==
  (op.slices[1][2] - op.slices[1][1]) * (op.slices[2][2] - op.slices[2][1])
-----------------------------------------------------------------------------
(***************************************************************************)
(* The tasks of the stream from one rank to another: records of the        *)
(* operation's place in the plan and the elements of the tensor the task   *)
(* covers, `from' being the first of them in the row-major order of the    *)
(* operation's rectangle on the receiver.                                  *)
(***************************************************************************)

\* _build_send_batch for one peer. A plain tensor's slice is one task with a
\* row stride, a compiled layout's slice one task per fragment.
SendTasks(ops) ==
  Concat([i \in DOMAIN ops |->
    IF ops[i].spans = <<>>
    THEN <<[op |-> i, span |-> 0, from |-> 0, bytes |-> OpBytes(ops[i])]>>
    ELSE LET pieces == SliceLayoutFragments(ops[i]) IN
           [j \in DOMAIN pieces |->
              [op |-> i, span |-> pieces[j][1], from |-> pieces[j][2],
               bytes |-> pieces[j][3]]]])

\* Mutant of RecvTasks: the pieces all start at the head of the view.
RecvTasksAtHead(ops, annotated) ==
  Concat([i \in DOMAIN ops |->
    LET pieces  == SliceLayoutFragments(ops[i])
        lengths == IF annotated /\ ops[i].spans # <<>>
                   THEN [j \in DOMAIN pieces |-> pieces[j][3]]
                   ELSE <<OpBytes(ops[i])>>
    IN  [j \in DOMAIN lengths |->
           [op |-> i, span |-> 0, from |-> 0, bytes |-> lengths[j]]]])

\* _build_recv_batch for one peer: one view, cut like the source's when the
\* plan is annotated with its spans.
RecvTasks(ops, annotated) ==
  Concat([i \in DOMAIN ops |->
    LET pieces  == SliceLayoutFragments(ops[i])
        lengths == IF annotated /\ ops[i].spans # <<>>
                   THEN [j \in DOMAIN pieces |-> pieces[j][3]]
                   ELSE <<OpBytes(ops[i])>>
    IN  [j \in DOMAIN lengths |->
           [op |-> i, span |-> 0, from |-> Total(SubSeq(lengths, 1, j - 1)),
            bytes |-> lengths[j]]]])

\* The element of the logical training tensor that byte k of a sender's task
\* is, -1 for a byte past the span. The row stride of a plain slice walks the
\* rectangle row by row.
SourceElement(ops, task, k) ==
  LET op      == ops[task.op]
      columns == op.slices[2][2] - op.slices[2][1]
  IN  IF op.spans = <<>>
      THEN (op.slices[1][1] + k \div columns) * op.shape[2]
             + op.slices[2][1] + (k % columns)
      ELSE IF task.from + k >= op.spans[task.span] THEN -1
      ELSE Total(SubSeq(op.spans, 1, task.span - 1)) + task.from + k

\* The one that belongs at byte k of a receiver's task: the view is written
\* in the row-major order of the rectangle.
TargetElement(ops, task, k) ==
  LET op      == ops[task.op]
      columns == op.slices[2][2] - op.slices[2][1]
      at      == task.from + k
  IN  (op.slices[1][1] + at \div columns) * op.shape[2]
        + op.slices[2][1] + (at % columns)
=============================================================================
