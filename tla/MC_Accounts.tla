----------------------------- MODULE MC_Accounts -----------------------------
(* Accounts instantiated for TLC: three slots, two loaded accounts (one    *)
(* liking the other), slot 3 free for /accounts/new/.                      *)
EXTENDS Accounts

MC_Ids == 1..3
MC_Emails == {"a@x", "b@x", "c@x", "d@y"}
\* getEmailDomain of each of them.
MC_EmailDomain == "a@x" :> "x" @@ "b@x" :> "x" @@ "c@x" :> "x" @@ "d@y" :> "y"
MC_Countries == {"", "c1", "c2"}
MC_Cities == {"", "k1", "k2"}
MC_Interests == {1, 2}
MC_Years == {110, 111}

\* The loaded files: account 1 likes account 2.  Births are days since the
\* epoch: 31 Dec 1969, 3 Jan 1970 and, for the create, 1 Jan 1970; an
\* update moves a birth to 2 Jan 1971 (1970 has 365 days).
MC_Dataset ==
    [i \in MC_Ids |->
        CASE i = 1 -> [email |-> "a@x", sex |-> "m", country |-> "c1", city |-> "k1", birth |-> -1,
                       joined |-> 110, interests |-> <<1, 2>>, likes |-> <<<<2, 5>>>>]
          [] i = 2 -> [email |-> "b@x", sex |-> "f", interests |-> <<2>>, joined |-> 111,
                       status |-> "complicated", birth |-> 2,
                       premium |-> [start |-> 1, finish |-> 3]]
          [] OTHER -> NoBody]

MC_NewBodies ==
    {[id |-> 3, email |-> "c@x", sex |-> "f", country |-> "c2", city |-> "k2",
      joined |-> 111, interests |-> <<2, 1>>, likes |-> <<<<1, 6>>>>, birth |-> 0],
     [id |-> 3, email |-> "a@x", sex |-> "m"]}

\* A create whose sex is illegal, for an unused id and e-mail.
MC_InvalidSexNewBodies == {[id |-> 3, email |-> "c@x", sex |-> "x", interests |-> <<1>>]}

MC_UpdateBodies ==
    {[sex |-> "f", interests |-> <<1>>, status |-> "taken"],
     [email |-> "d@y", country |-> "c2", birth |-> 366],
     [email |-> "b@x"],
     [likes |-> <<<<3, 7>>>>, joined |-> 111],
     [interests |-> <<1, 2>>, premium |-> [start |-> 2, finish |-> 2]],
     [sex |-> "x"]}

MC_LikesBodies ==
    {<<[liker |-> 2, likee |-> 1, ts |-> 8]>>,
     <<[liker |-> 1, likee |-> 3, ts |-> 8], [liker |-> 3, likee |-> 2, ts |-> 9]>>}

==============================================================================
