---------------------------- MODULE MCDirectory -----------------------------
\* Values of the constants of Directory for TLC
EXTENDS Directory

CONSTANTS r1, r2

Table(names) == {Row(i, names[i], <<>>) : i \in DOMAIN names}
admin == <<"admin">>
member == <<"user">>
city == <<"city">>
staff == <<"staff">>
zip == <<"zip">>

MCRows == [roles  |-> Table(<<admin, member, rauthy_admin>>),
           groups |-> Table(<<member, admin>>),
           scopes |-> Table(<<openid>>) \cup {Row(2, city, city)},
           attrs  |-> {Row(city, city, <<>>)}]

MCUser == [roles |-> rauthy_admin \o <<Comma>> \o admin, groups |-> admin]
MCClient == [scopes |-> openid \o <<Comma>> \o city, default_scopes |-> openid]
MCValues == {city}

MCNewNames == [roles  |-> {staff}, groups |-> {staff}, scopes |-> {zip}, attrs |-> {city, zip}]
MCUserRequests == {<<{rauthy_admin, member}, {member}>>, <<{member, staff}, {admin}>>}
MCClientRequests == {<<{city, zip}, {city}>>, <<{zip}, {city}>>}

Symmetry == Permutations(Handlers)
=============================================================================
