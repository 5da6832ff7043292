------------------------------ MODULE MCSources ------------------------------
(***************************************************************************)
(* What is read in turns, and must be read in order, in one run: a         *)
(* provider's StaticSource, the key of a DiscoverySourceCache, and the     *)
(* OfficePage of a browser.  The system under check is one of them, and    *)
(* the others stay as they began.                                          *)
(***************************************************************************)
EXTENDS StaticSource, DiscoverySourceCache, OfficePage

CONSTANTS l1, l2, u1, u2, t1, t2

VARIABLE which

allVars == <<vars, discoveryVars, officeVars, which>>

Asks(name, kind, from, options, other, required) ==
  [name |-> name, kind |-> kind, from |-> from, options |-> options,
   other |-> other, required |-> required]

MCRequests ==
  {Asks("a", "approval", "permissions", None, FALSE, FALSE),
   Asks("b", "input", "codex", "some", TRUE, TRUE)}

Pages == {"stream", "replies", "answers"}

SourcesInit ==
  Init /\ DiscoveryInit /\ OfficeInit /\ which \in {"static", "discovery"} \union Pages

\* Of a page, either the stream breaks, or the user replies to threads, of which
\* one goes late, or agents ask and the user answers.
OnThisPage ==
  /\ which # "stream" => breaks' = breaks /\ Len(wire') <= 1
  /\ which # "replies" => composer' = composer /\ openThread' = openThread
  /\ which # "answers" => asking' = asking
  /\ which = "answers" => served'.threads = served.threads
  /\ which = "replies" =>
       /\ t1 \in served'.threads /\ served'.threads \subseteq served.threads
       /\ served'.threads # served.threads => Len(calls) = 2
       /\ openThread' # t1 /\ wire' = <<>>

SourcesNext ==
  /\ UNCHANGED which
  /\ \/ which = "static" /\ Next /\ UNCHANGED <<discoveryVars, officeVars>>
     \/ which = "discovery" /\ DiscoveryNext /\ UNCHANGED <<vars, officeVars>>
     \/ /\ which \in Pages /\ OfficeNext /\ OnThisPage
        /\ UNCHANGED <<vars, discoveryVars>>

\* Nothing that must happen can happen in the initial state of any of them, so
\* those that stay there owe nothing.
SourcesSpec ==
  /\ SourcesInit /\ [][SourcesNext]_allVars
  /\ Fairness /\ DiscoveryFairness /\ OfficeFairness
==============================================================================
