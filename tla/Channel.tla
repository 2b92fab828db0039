------------------------------ MODULE Channel -------------------------------
(***************************************************************************)
(* net::Channel and the part of net::EpollPoller that keeps the kernel's   *)
(* interest list: what one channel asks for, what the poller remembers of  *)
(* it, and how it is registered in epoll.                                  *)
(*                                                                         *)
(* A channel is a record; the operators are the methods of the two classes *)
(* that change it, each giving the channel after the call.  An epoll_ctl() *)
(* that fails (EEXIST, ENOENT) changes nothing, and the code ignores it.   *)
(***************************************************************************)
Events == {"in", "out"}

\* events_, index_, and in the kernel: whether the fd is registered, for what.
ChannelSet == [events : SUBSET Events, index : {"new", "added", "deleted"},
               registered : BOOLEAN, mask : SUBSET Events]

NewChannel == [events |-> {}, index |-> "new", registered |-> FALSE, mask |-> {}]

is_writing(ch)    == "out" \in ch.events
is_none_event(ch) == ch.events = {}

Add(ch) == IF ch.registered THEN ch ELSE [ch EXCEPT !.registered = TRUE, !.mask = ch.events]
Mod(ch) == IF ch.registered THEN [ch EXCEPT !.mask = ch.events] ELSE ch
Del(ch) == [ch EXCEPT !.registered = FALSE, !.mask = {}]

\* EpollPoller::update_channel()
update_channel(ch) ==
  IF ch.index = "added"
  THEN IF is_none_event(ch) THEN [Del(ch) EXCEPT !.index = "deleted"] ELSE Mod(ch)
  ELSE Add([ch EXCEPT !.index = "added"])

\* Mutant of remove_channel: counts on disable_all() having deleted the channel.
remove_channelKeeps(ch) == [ch EXCEPT !.index = "new"]

\* EpollPoller::remove_channel()
remove_channel(ch) == [(IF ch.index = "added" THEN Del(ch) ELSE ch) EXCEPT !.index = "new"]

enable_reading(ch)  == update_channel([ch EXCEPT !.events = ch.events \cup {"in"}])
enable_writing(ch)  == update_channel([ch EXCEPT !.events = ch.events \cup {"out"}])
disable_writing(ch) == update_channel([ch EXCEPT !.events = ch.events \ {"out"}])
disable_all(ch)     == update_channel([ch EXCEPT !.events = {}])

\* Channel::remove()
remove(ch) == remove_channel(disable_all(ch))
=============================================================================
