------------------------------ MODULE Warehouse ------------------------------
(* What semp.c promises: a stock of products that is never more than the     *)
(* warehouse holds, and is taken from only when there is something in it.    *)
EXTENDS Naturals

CONSTANT BufferSize
VARIABLE stock

WInit == stock = 0

Produce == stock < BufferSize /\ stock' = stock + 1
Consume == stock > 0 /\ stock' = stock - 1

WSpec == WInit /\ [][Produce \/ Consume]_stock
=============================================================================
