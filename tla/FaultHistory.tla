---------------------------- MODULE FaultHistory ----------------------------
(***************************************************************************)
(* The operations of the class FaultHistory, loop by loop, on a history h: *)
(* the sequence of a device's faults.  resolve is called by its tests      *)
(* only; neither the store nor the applications ever resolve a fault.      *)
(***************************************************************************)
EXTENDS Assessment, SequencesExt

Knows(h, id) == \E i \in 1 .. Len(h) : h[i].id = id

(* resolve, and whether it returns true: only an open fault is resolved. *)
Resolvable(h, id) == \E i \in 1 .. Len(h) : h[i].id = id /\ h[i].open

Resolve(h, id) ==
  [i \in 1 .. Len(h) |-> IF h[i].id = id THEN [h[i] EXCEPT !.open = FALSE] ELSE h[i]]

OpenFaults(h) == SelectSeq(h, LAMBDA f : f.open)
FaultsOfType(h, t) == SelectSeq(h, LAMBDA f : f.type = t)
CountOfType(h, t) == Len(FaultsOfType(h, t))

Recent(h, limit) ==
  IF limit >= Len(h) THEN h ELSE SubSeq(h, Len(h) - limit + 1, Len(h))

(* Variant: an interruption by another type does not end the run. *)
ConsecutiveOfTypeUnbroken(h, t) == CountOfType(h, t)

(* The loop from the end that stops at the first fault of another type. *)
ConsecutiveOfType(h, t) ==
  FoldLeft(LAMBDA run, f : IF f.type = t /\ run.on THEN [run EXCEPT !.n = @ + 1]
                           ELSE [run EXCEPT !.on = FALSE],
           [n |-> 0, on |-> TRUE], Reverse(h)).n

(* stats, in one pass *)
Stats(h) ==
  LET counted == FoldLeft(
        LAMBDA s, f :
          IF ~f.open THEN s
          ELSE [s EXCEPT !.hasOpenFatal = @ \/ f.fatal \/ f.severity = FATAL,
                         !.hasOpenCritical = @ \/ f.severity >= CRITICAL,
                         !.criticalFatalOpen = IF f.severity >= CRITICAL THEN @ + 1 ELSE @],
        [hasOpenFatal |-> FALSE, hasOpenCritical |-> FALSE, criticalFatalOpen |-> 0], h)
  IN  [total |-> Len(h), open |-> counted,
       consecutiveLatest |-> IF h = <<>> THEN 0 ELSE ConsecutiveOfType(h, Last(h).type)]

(* read: the faults one by one, refused at the first id that is known already. *)
Read(faults) ==
  FoldLeft(LAMBDA r, f : IF ~r.ok \/ Knows(r.history, f.id) THEN [r EXCEPT !.ok = FALSE]
                         ELSE [r EXCEPT !.history = Append(@, f)],
           [ok |-> TRUE, history |-> <<>>], faults)
=============================================================================
