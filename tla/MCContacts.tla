----------------------------- MODULE MCContacts -----------------------------
(* Two people of one company and six results: its team page, which names   *)
(* r1 and carries a colleague's address; its investor page; a conference   *)
(* page naming r2; a directory page naming both, with a consumer mailbox   *)
(* that bears r1's name and begins like a role, and an assistant's         *)
(* address; a profile of r1; the company's page on LinkedIn.               *)
EXTENDS Contacts

CONSTANTS r1, r2, c1

OneCompany == [r \in Rows |-> c1]

Mail(address, role, mailbox, bears, domain) ==
    [address |-> address, role |-> role, mailbox |-> mailbox, bears |-> bears,
     domain |-> domain]

Plain == [kind |-> "page", site |-> {}, shapes |-> {}, root |-> FALSE, people |-> {},
          concerns |-> {}, mails |-> <<>>, phones |-> <<>>]

Team == [Plain EXCEPT !.site = {c1}, !.shapes = {"executive_office"}, !.people = {r1},
            !.mails = <<Mail("colleague", "none", FALSE, {}, "own")>>]

Investors == [Plain EXCEPT !.site = {c1}, !.shapes = {"investor_relations"},
                 !.mails = <<Mail("ir", "investor_relations", TRUE, {}, "own")>>,
                 !.phones = <<[number |-> "switchboard", written |-> "area code split off"],
                              [number |-> "handset", written |-> "one block"]>>]

Conference == [Plain EXCEPT !.shapes = {"executive_office", "conference_page"}, !.people = {r2}]

Directory == [Plain EXCEPT !.people = {r1, r2},
                 !.mails = <<Mail("irfan", "none", TRUE, {r1}, "free"),
                             Mail("ea", "assistant", TRUE, {}, "other")>>]

Profile == [Plain EXCEPT !.kind = "profile", !.people = {r1}]

LinkedInPage == [Plain EXCEPT !.kind = "company_page", !.concerns = {c1}]

SixPages == {Team, Investors, Conference, Directory, Profile, LinkedInPage}

Address == [p \in Pages |-> CASE p = Team -> "team" [] p = Investors -> "investors"
                              [] p = Conference -> "conference" [] p = Directory -> "directory"
                              [] p = Profile -> "in" [] p = LinkedInPage -> "company"]

UpToTwo == {s \in BoundedSeq(Pages, 2) : IsInjective(s)}
=============================================================================
