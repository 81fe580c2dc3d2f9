-------------------------- MODULE MCBulkAllocation --------------------------
EXTENDS BulkAllocation

Request(limit, preferred) == [limit |-> limit, preferred |-> preferred]

Allocator(object, alignment, requests, batches, runsOut, held) ==
  [class |-> "allocator", object |-> object, alignment |-> alignment, requests |-> requests,
   ways |-> {{"expand_fwd", "expand_bwd"}}, batches |-> batches, runsOut |-> runsOut,
   shrinks |-> FALSE, held |-> held]

\* Buffers that grow and shrink between each other, those beside dv, large,
\* aligned and mapped ones, and chains
MCUses ==
  {Allocator(3, 2, {Request(3, 9)}, {}, FALSE, 3),
   Allocator(3, 2, {Request(3, 3), Request(6, 6), Request(9, 12)}, {<<17, 3>>, <<3>>}, TRUE, 2),
   [Allocator(4, 4, {Request(4, 4), Request(20, 24)}, {}, FALSE, 2)
      EXCEPT !.ways = @ \cup {{"expand_bwd", "allocate_new"}}],
   [Allocator(1, 2, {Request(3, 3)}, {<<3, 3>>, <<5, 3>>}, FALSE, 3)
      EXCEPT !.class = "adaptive_pool", !.ways = {}]}
=============================================================================
