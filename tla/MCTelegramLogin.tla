-------------------------- MODULE MCTelegramLogin --------------------------
EXTENDS TelegramLogin, TLC

Symmetry == Permutations(Users) \union Permutations(Ids) \union Permutations(Keys)
              \union Permutations(Requests)
=============================================================================
