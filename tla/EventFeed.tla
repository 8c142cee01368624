------------------------------ MODULE EventFeed ------------------------------
(***************************************************************************)
(* What Client.Events promises its caller: the callback gets the events of *)
(* one stream one by one, in the order they were sent, each whole and none *)
(* twice; the call ends at any point, and returns io.EOF only when it has  *)
(* handed over everything.                                                 *)
(***************************************************************************)
EXTENDS Naturals, Sequences

CONSTANTS
  Events,   \* what can be sent
  Causes,   \* what the call can return, "EOF" among them
  None      \* the call has not returned

VARIABLES sent, delivered, over

feedVars == <<sent, delivered, over>>

FeedInit == sent = <<>> /\ delivered = <<>> /\ over = None

Send(e) ==
  /\ sent' = Append(sent, e)
  /\ UNCHANGED <<delivered, over>>

Deliver ==
  /\ over = None
  /\ Len(delivered) < Len(sent)
  /\ delivered' = Append(delivered, sent[Len(delivered) + 1])
  /\ UNCHANGED <<sent, over>>

End(cause) ==
  /\ over = None
  /\ cause = "EOF" => delivered = sent
  /\ over' = cause
  /\ UNCHANGED <<sent, delivered>>

FeedNext == Deliver \/ (\E e \in Events : Send(e)) \/ (\E c \in Causes : End(c))

\* Nothing wrong arrives.
FeedSafety == FeedInit /\ [][FeedNext]_feedVars

\* What has been sent arrives, unless the call ends first.
FeedSpec == FeedSafety /\ WF_feedVars(Deliver)
=============================================================================
