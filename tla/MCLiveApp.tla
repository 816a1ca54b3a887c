----------------------------- MODULE MCLiveApp -----------------------------
\* A deployment that offers both modes, one that enforces live, one whose local API is
\* refused and one whose programs are malformed; and a service that does not name the
\* adapter's wallet on the page asked for while governance is paused, or lists it with
\* a vault and a deposit, or fails.
EXTENDS LiveApp

Env(api, production, addresses, mode) ==
  [api |-> api, production |-> production, allowLocal |-> FALSE, cluster |-> "devnet",
   programs |-> [c \in {"devnet", "mainnet"} |-> IF c = "devnet" THEN addresses ELSE {"base58"}],
   mode |-> mode]
MCDeployments == {Env("local", FALSE, {"base58"}, "demo"), Env("unset", TRUE, {"base58"}, "live"),
                  Env("local", TRUE, {"base58"}, "live"), Env("remote", TRUE, {"malformed"}, "live")}

Market(authority, status) == [authority |-> authority, status |-> status, vault |-> "vault"]
Answer(attnusd, markets, positions, paused) ==
  [attnusd |-> attnusd, markets |-> markets, positions |-> positions, vaults |-> {"vault"},
   paused |-> paused]
MCLiveAnswers ==
  {Answer(TRUE, <<Market(NoWallet, "active"), Market("other", "settled"), Market(Key, "active")>>,
          <<>>, TRUE),
   Answer(TRUE, <<Market(Key, "matured"), Market(Key, "active")>>, <<1, 2>>, FALSE),
   Answer(FALSE, <<>>, <<>>, FALSE)}
=============================================================================
