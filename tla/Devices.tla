------------------------------ MODULE Devices -------------------------------
(***************************************************************************)
(* device.py: what it makes of a host's accelerators.  A detection asks    *)
(* nvidia-smi twice, once for the devices the installed build can drive    *)
(* and once for those that are merely present, and reconciles the answers  *)
(* by count.  Each of the two may fail, and then lists no card, or have    *)
(* lines that are no rows, and then lists only some.                       *)
(*                                                                         *)
(* A device string is cut at its colon: "cuda:1" is <<"cuda", 1>>.  Names, *)
(* reasons and install hints are left out.                                 *)
(***************************************************************************)
EXTENDS Integers, Sequences, SequencesExt

\* cards: the memory of each card, 0 where nvidia-smi has no number for it;
\* nodes: there are /dev/nvidia*; cuda, openvino: compiled into the Rust library.
Host == [cards : Seq(Nat), nodes : BOOLEAN, kfd : BOOLEAN, apple : BOOLEAN,
         cuda : BOOLEAN, openvino : BOOLEAN]

\* The values of settings.device.
DeviceNames ==
  {<<"auto">>, <<"cpu">>, <<"cuda">>, <<"openvino">>, <<"mps">>, <<"rocm">>, <<"xla">>}
  \cup ({"cuda"} \X Nat)

\* The positions of key, those of larger keys first: a stable sort, reversed.
BestFirst(key) ==
  CHOOSE p \in [DOMAIN key -> DOMAIN key] :
    \A a, b \in DOMAIN key :
      a < b => \/ key[p[a]] > key[p[b]]
               \/ key[p[a]] = key[p[b]] /\ p[a] < p[b]

-----------------------------------------------------------------------------
(***************************************************************************)
(* Detection.                                                              *)
(***************************************************************************)

\* nvidia-smi's row for each card, by its index.
SmiRows(host) ==
  [i \in DOMAIN host.cards |-> [index |-> i - 1, memory |-> host.cards[i]]]

\* The rows that _run_nvidia_smi returns.  A line of other than five fields is
\* skipped; none is left if nvidia-smi is missing, stuck or failing.
SmiAnswers(host) ==
  {rows \in BoundedSeq(ToSet(SmiRows(host)), Len(host.cards)) :
     \A a, b \in DOMAIN rows : a < b => rows[a].index < rows[b].index}

DeviceInfo(device, memory) == [device |-> device, memory |-> memory]
CPU == DeviceInfo(<<"cpu">>, 0)

\* The reachable GPUs.  nvidia-smi is asked only by a build that has CUDA.
ReachableAnswers(host) == IF host.cuda THEN SmiAnswers(host) ELSE {<<>>}
Reachable(rows) ==
  [i \in DOMAIN rows |-> DeviceInfo(<<"cuda", rows[i].index>>, rows[i].memory)]

\* Kinds of the accelerators the OS probes find.  nvidia-smi is asked only
\* where there are device nodes.
LatentAnswers(host) == IF host.nodes THEN SmiAnswers(host) ELSE {<<>>}
Candidates(host, rows) ==
  [i \in DOMAIN rows |-> "cuda"]
  \o (IF host.kfd THEN <<"rocm">> ELSE <<>>)
  \o (IF host.apple THEN <<"mps">> ELSE <<>>)

\* MUTANT of Covered: a build with CUDA that reached no card gets no credit.
CoveredAsReached(host, reachable, rows) == Len(reachable)

\* How many of the cuda candidates count as reachable: where a build with CUDA
\* reached none, all of them.
Covered(host, reachable, rows) ==
  IF host.cuda /\ reachable = <<>> THEN Len(rows) ELSE Len(reachable)

\* The candidates but for the first so many of kind cuda, which come first.
Latent(host, reachable, rows) ==
  LET skipped == Covered(host, reachable, rows)
      all == Candidates(host, rows)
  IN  SubSeq(all, (IF skipped < Len(rows) THEN skipped ELSE Len(rows)) + 1, Len(all))

Providers(host) ==
  {"CPU"} \cup (IF host.cuda THEN {"CUDA"} ELSE {})
          \cup (IF host.openvino THEN {"OpenVINO"} ELSE {})

\* SystemDevices, from the two answers of nvidia-smi: the GPUs by memory, the
\* CPU last.
SystemDevices(host, first, second) ==
  LET gpus == Reachable(first)
      order == BestFirst([i \in DOMAIN gpus |-> gpus[i].memory])
  IN  [devices |-> Append([i \in DOMAIN gpus |-> gpus[order[i]]], CPU),
       latent |-> Latent(host, gpus, second),
       providers |-> Providers(host)]

-----------------------------------------------------------------------------
(***************************************************************************)
(* Resolution.                                                             *)
(***************************************************************************)

Found(device) == [device |-> device, error |-> "none"]
NotFound(error) == [device |-> <<"none">>, error |-> error]

\* SystemDevices.best
Best(system) == system.devices[1].device

\* The first of the devices that satisfies Is, if one does.
FirstOf(devices, Is(_)) == Found(SelectSeq(devices, Is)[1].device)

\* _kind_of
Kinds == {"cuda", "mps", "rocm"}
KindOf(requested) ==
  IF requested[1] \in Kinds THEN requested[1] ELSE "none"

\* resolve_device: the device for a request, or the exception it raises.
Resolve(requested, system) ==
  LET Named(d) == d.device = requested
      Cuda(d) == d.device[1] = "cuda"
      Some(Is(_)) == SelectSeq(system.devices, Is) # <<>>
  IN  CASE requested = <<"auto">> -> Found(Best(system))
        [] requested = <<"cpu">> -> Found(<<"cpu">>)
        [] Some(Named) -> FirstOf(system.devices, Named)
        [] requested = <<"cuda">> /\ Some(Cuda) -> FirstOf(system.devices, Cuda)
        [] requested = <<"openvino">> ->
             IF "OpenVINO" \in system.providers
             THEN Found(<<"openvino">>)
             ELSE NotFound("ValueError")
        [] OTHER ->
             IF KindOf(requested) \in ToSet(system.latent)
             THEN NotFound("DeviceNotReachableError")
             ELSE NotFound("ValueError")

=============================================================================
