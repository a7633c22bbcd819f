----------------------------- MODULE MCEventBus -----------------------------
(* Two publishing threads, a device channel and a message channel.         *)
EXTENDS EventBus, TLC
CONSTANTS e1, e2, e3, p1, p2

MCChannelOf == (e1 :> "NEW_DEVICE") @@ (e2 :> "MESSAGE") @@ (e3 :> "NEW_DEVICE")
MCFeedOne == (p1 :> <<e1>>) @@ (p2 :> <<e2>>)
MCFeed == (p1 :> <<e1, e2>>) @@ (p2 :> <<e3>>)
MCLists == {<<"NEW_DEVICE">>, <<"*">>, <<"MESSAGE", "NEW_DEVICE">>}
=============================================================================
