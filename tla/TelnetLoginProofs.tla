--------------------------- MODULE TelnetLoginProofs ---------------------------
(* Theorems of TelnetLogin, for any account, any chunks, any size of the    *)
(* buffers and any number of attempts: who gets in (OnlyTheAccount,         *)
(* AccountGetsIn), that the terminal hides the password and nothing else    *)
(* (PasswordHides), and the types (LoginTypeOK).                            *)
EXTENDS TelnetLogin, TLAPS

-----------------------------------------------------------------------------
(* What strncpy leaves in an array: the chunk up to a terminator in it,     *)
(* and behind that only terminators, up to the chunk's length.              *)
Copied(b, c) ==
    \A j \in 0..Len(c) - 1 :
        /\ b[j] # NUL <=> \A k \in 1..j + 1 : c[k] # NUL
        /\ b[j] # NUL => b[j] = c[j + 1]

LEMMA CopiedByStrNCpy ==
    ASSUME NEW a, NEW c \in Chunks, Len(c) < N
    PROVE  /\ Copied(StrNCpy(a, c), c)
           /\ \A j \in Index : j >= Len(c) => StrNCpy(a, c)[j] = a[j]
           /\ DOMAIN StrNCpy(a, c) = Index
  <1> USE SizesAssumption, ChunksAssumption
  <1> DEFINE b == StrNCpy(a, c)
  <1>1. Len(c) \in 1..N - 1 /\ DOMAIN c = 1..Len(c)
    OBVIOUS
  <1>2. ASSUME NEW j \in 0..Len(c) - 1
        PROVE  b[j] = IF \E k \in 1..j + 1 : c[k] = NUL THEN NUL ELSE c[j + 1]
    <2>1. j \in Index /\ ~(j >= Len(c))
      BY <1>1 DEF Index
    <2> QED
      BY <2>1 DEF StrNCpy
  <1>3. ASSUME NEW j \in 0..Len(c) - 1
        PROVE  /\ b[j] # NUL <=> \A k \in 1..j + 1 : c[k] # NUL
               /\ b[j] # NUL => b[j] = c[j + 1]
    <2>1. j + 1 \in 1..j + 1
      BY <1>1
    <2>2. CASE \E k \in 1..j + 1 : c[k] = NUL
      BY <1>2, <2>2
    <2>3. CASE \A k \in 1..j + 1 : c[k] # NUL
      BY <1>2, <2>1, <2>3
    <2> QED
      BY <2>2, <2>3
  <1>4. ASSUME NEW j \in Index, j >= Len(c) PROVE b[j] = a[j]
    BY <1>4 DEF StrNCpy
  <1>5. DOMAIN b = Index
    BY DEF StrNCpy
  <1> HIDE DEF b
  <1> QED
    BY <1>3, <1>4, <1>5 DEF Copied, b

(* A string of the account agrees with what is kept of a chunk, if rtrim    *)
(* found a terminator right behind the chunk, exactly when the user means   *)
(* it.                                                                      *)
LEMMA TrimmedMeans ==
    ASSUME NEW b, NEW c \in Chunks, Len(c) < N, NEW s \in {User, Pass},
           Copied(b, c), b[Len(c)] = NUL
    PROVE  Equal(RTrim(b), s) <=> Means(c, s)
  <1> DEFINE n == Len(c)  m == Len(s)
             r == RTrim(b)
             Rest(j) == InString(b, j) /\ \A k \in j..N - 1 : InString(b, k) => b[k] \in Spaces
  <1>1. n \in 1..N - 1 /\ N \in Nat /\ m \in Nat
    BY SizesAssumption, ChunksAssumption, AccountAssumption
  <1>2. \A j \in 1..m : s[j] # NUL
    BY AccountAssumption
  <1>3. m > 0 => s[m] \notin Spaces
    BY AccountAssumption
  <1>4. ASSUME NEW j \in Index
        PROVE  r[j] = IF Rest(j) THEN NUL ELSE b[j]
    BY DEF RTrim
  <1>5. ASSUME NEW j \in Index
        PROVE  InString(b, j) <=> j < n /\ \A k \in 1..j + 1 : c[k] # NUL
    <2>1. ASSUME j < n, \A k \in 1..j + 1 : c[k] # NUL PROVE InString(b, j)
      <3> SUFFICES ASSUME NEW i \in 0..j PROVE b[i] # NUL
        BY DEF InString
      <3>1. i \in 0..n - 1 /\ \A k \in 1..i + 1 : c[k] # NUL
        BY <1>1, <2>1 DEF Index
      <3> QED
        BY <3>1 DEF Copied
    <2>2. ASSUME InString(b, j) PROVE j < n
      <3>1. CASE n \in 0..j
        BY <2>2, <3>1 DEF InString
      <3>2. CASE n \notin 0..j
        BY <1>1, <3>2 DEF Index
      <3> QED
        BY <3>1, <3>2
    <2>3. ASSUME InString(b, j) PROVE \A k \in 1..j + 1 : c[k] # NUL
      <3>1. j \in 0..n - 1 /\ j \in 0..j
        BY <2>2, <2>3, <1>1 DEF Index
      <3>2. b[j] # NUL
        BY <2>3, <3>1 DEF InString
      <3> QED
        BY <3>1, <3>2 DEF Copied
    <2> QED
      BY <2>1, <2>2, <2>3
  <1>6. r[n] = NUL
    <2>1. n \in Index
      BY <1>1 DEF Index
    <2> QED
      BY <2>1, <1>4
  <1> HIDE DEF r
  <1>7. ASSUME Equal(r, s) PROVE Means(c, s)
    <2>1. m < N /\ (\A j \in 1..m : r[j - 1] = s[j]) /\ r[m] = NUL
      BY <1>7 DEF Equal
    <2>2. m <= n
      <3> SUFFICES ASSUME m > n PROVE FALSE
        BY <1>1
      <3>1. n + 1 \in 1..m /\ (n + 1) - 1 = n
        BY <1>1
      <3>2. r[n] = s[n + 1]
        BY <2>1, <3>1
      <3> QED
        BY <1>2, <1>6, <3>1, <3>2
    <2>3. ASSUME NEW j \in 1..m
          PROVE  c[j] = s[j] /\ c[j] # NUL
      <3>1. j - 1 \in Index /\ j - 1 \in 0..n - 1 /\ (j - 1) + 1 = j
        BY <1>1, <2>2 DEF Index
      <3>2. r[j - 1] = s[j] /\ s[j] # NUL
        BY <2>1, <1>2
      <3>3. b[j - 1] = s[j]
        BY <1>4, <3>1, <3>2
      <3> QED
        BY <3>1, <3>2, <3>3 DEF Copied
    <2>4. ASSUME NEW k \in m + 1..n, \A i \in m + 1..k : c[i] # NUL
          PROVE  c[k] \in Spaces
      <3>1. \A i \in 1..k : c[i] # NUL
        <4> TAKE i \in 1..k
        <4>1. i \in 1..m \/ i \in m + 1..k
          BY <1>1
        <4> QED
          BY <4>1, <2>3, <2>4
      <3>2. m \in Index /\ k - 1 \in Index /\ k - 1 < n /\ (k - 1) + 1 = k
        BY <1>1 DEF Index
      <3>3. InString(b, k - 1)
        BY <1>5, <3>1, <3>2
      <3>4. m \in 0..k - 1 /\ k - 1 \in 0..k - 1 /\ k - 1 \in m..N - 1
        BY <1>1
      <3>5. b[m] # NUL /\ b[k - 1] # NUL
        BY <3>3, <3>4 DEF InString
      <3>6. Rest(m)
        BY <1>4, <2>1, <3>2, <3>5
      <3>7. b[k - 1] \in Spaces
        BY <3>3, <3>4, <3>6
      <3>8. k - 1 \in 0..n - 1
        BY <1>1
      <3>9. b[k - 1] = c[k]
        BY <3>2, <3>5, <3>8 DEF Copied
      <3> QED
        BY <3>7, <3>9
    <2> QED
      BY <2>2, <2>3, <2>4 DEF Means
  <1>8. ASSUME Means(c, s) PROVE Equal(r, s)
    <2>1. /\ m <= n
          /\ \A j \in 1..m : c[j] = s[j]
          /\ \A k \in m + 1..n : (\A i \in m + 1..k : c[i] # NUL) => c[k] \in Spaces
      BY <1>8 DEF Means
    <2>2. \A j \in 1..m : c[j] # NUL
      BY <1>2, <2>1
    <2>3. ASSUME NEW j \in 1..m PROVE r[j - 1] = s[j]
      <3>1. j - 1 \in Index /\ m - 1 \in Index /\ m - 1 \in j - 1..N - 1 /\ m - 1 < n
        BY <1>1, <2>1 DEF Index
      <3>2. (m - 1) + 1 = m /\ (j - 1) + 1 = j /\ j - 1 < n
        BY <1>1, <2>1
      <3>3. InString(b, m - 1) /\ InString(b, j - 1)
        BY <1>5, <2>2, <3>1, <3>2
      <3>4. m - 1 \in 0..m - 1 /\ j - 1 \in 0..j - 1 /\ m - 1 \in 0..n - 1 /\ j - 1 \in 0..n - 1
        BY <3>1, <1>1, <2>1
      <3>5. b[m - 1] = c[m] /\ b[j - 1] = c[j]
        BY <3>2, <3>3, <3>4 DEF InString, Copied
      <3>6. b[m - 1] \notin Spaces
        BY <1>1, <1>3, <2>1, <3>5
      <3>7. ~Rest(j - 1)
        BY <3>1, <3>3, <3>6
      <3> QED
        BY <1>4, <2>1, <3>1, <3>5, <3>7
    <2>4. r[m] = NUL
      <3>1. m \in Index /\ m < N
        BY <1>1, <2>1 DEF Index
      <3>2. ASSUME NEW k \in m..N - 1, InString(b, k) PROVE b[k] \in Spaces
        <4>1. k \in Index /\ k \in 0..k
          BY <1>1 DEF Index
        <4>2. k < n /\ \A i \in 1..k + 1 : c[i] # NUL
          BY <1>5, <3>2, <4>1
        <4>3. k + 1 \in m + 1..n /\ (\A i \in m + 1..k + 1 : i \in 1..k + 1) /\ k \in 0..n - 1
          BY <1>1, <4>2
        <4>4. c[k + 1] \in Spaces
          BY <2>1, <4>2, <4>3
        <4>5. b[k] = c[k + 1]
          BY <4>2, <4>3 DEF Copied
        <4> QED
          BY <4>4, <4>5
      <3>3. CASE InString(b, m)
        BY <1>4, <3>1, <3>2, <3>3
      <3>4. CASE ~InString(b, m)
        <4>1. PICK i \in 0..m : b[i] = NUL
          BY <3>4 DEF InString
        <4>2. ASSUME i < m PROVE FALSE
          <5>1. i \in Index /\ i \in 0..i /\ i < n /\ \A k \in 1..i + 1 : k \in 1..m
            BY <1>1, <2>1, <4>2 DEF Index
          <5>2. InString(b, i)
            BY <1>5, <2>2, <5>1
          <5> QED
            BY <4>1, <5>1, <5>2 DEF InString
        <4>3. b[m] = NUL
          BY <1>1, <4>1, <4>2
        <4> QED
          BY <1>4, <3>1, <4>3
      <3> QED
        BY <3>3, <3>4
    <2> QED
      BY <1>1, <2>1, <2>3, <2>4 DEF Equal
  <1> QED
    BY <1>7, <1>8 DEF r

(* The name is terminated before it is trimmed: it is compared as meant.    *)
LEMMA NameIsMeant ==
    ASSUME NEW a, NEW c \in Chunks, Len(c) < N, NEW s \in {User, Pass}
    PROVE  Equal(NameOf(a, c), s) <=> Means(c, s)
  <1> DEFINE b == StrNCpy(a, c)
             d == Terminate(b, Len(c))
  <1>1. Len(c) \in Index
    BY SizesAssumption, ChunksAssumption DEF Index
  <1>2. Copied(b, c) /\ DOMAIN b = Index
    BY CopiedByStrNCpy
  <1>3. d[Len(c)] = NUL
    BY <1>1, <1>2 DEF Terminate
  <1>4. \A j \in 0..Len(c) - 1 : d[j] = b[j]
    BY <1>1, <1>2 DEF Terminate, Index
  <1> HIDE DEF b
  <1>5. Copied(d, c)
    <2> HIDE DEF d
    <2> QED
      BY <1>2, <1>4 DEF Copied
  <1>6. Equal(RTrim(d), s) <=> Means(c, s)
    <2> HIDE DEF d
    <2> QED
      BY <1>3, <1>5, TrimmedMeans
  <1> QED
    BY <1>6 DEF NameOf, b

(* The password is terminated after it is trimmed: it is compared as meant  *)
(* if nothing is left of an earlier one behind it ...                       *)
LEMMA PassIsMeant ==
    ASSUME NEW a, NEW c \in Chunks, Len(c) < N, NEW s \in {User, Pass},
           \A j \in Index : j >= Len(c) => a[j] = NUL
    PROVE  Equal(PassOf(a, c), s) <=> Means(c, s)
  <1> DEFINE b == StrNCpy(a, c)
             r == RTrim(b)
  <1>1. Len(c) \in Index /\ Len(c) >= Len(c)
    BY SizesAssumption, ChunksAssumption DEF Index
  <1>2. Copied(b, c) /\ b[Len(c)] = NUL
    BY <1>1, CopiedByStrNCpy
  <1> HIDE DEF b
  <1>3. Equal(r, s) <=> Means(c, s)
    BY <1>2, TrimmedMeans
  <1>4. r = [r EXCEPT ![Len(c)] = NUL]
    BY <1>1, <1>2 DEF RTrim
  <1>5. PassOf(a, c) = r
    BY <1>4 DEF PassOf, Terminate, b
  <1> QED
    BY <1>3, <1>5

(* ... and in any case nothing is accepted that was not meant.              *)
LEMMA PassNeverExtended ==
    ASSUME NEW a, NEW c \in Chunks, Len(c) < N, NEW s \in {User, Pass},
           Equal(PassOf(a, c), s)
    PROVE  Means(c, s)
  <1> DEFINE n == Len(c)  m == Len(s)
             b == StrNCpy(a, c)
             r == RTrim(b)
             t == Terminate(r, n)
             Rest(j) == InString(b, j) /\ \A k \in j..N - 1 : InString(b, k) => b[k] \in Spaces
  <1>1. n \in 1..N - 1 /\ N \in Nat /\ m \in Nat
    BY SizesAssumption, ChunksAssumption, AccountAssumption
  <1>2. \A j \in 1..m : s[j] # NUL
    BY AccountAssumption
  <1>3. Copied(b, c)
    BY CopiedByStrNCpy
  <1> HIDE DEF b
  <1>4. ASSUME NEW j \in Index
        PROVE  r[j] = IF Rest(j) THEN NUL ELSE b[j]
    BY DEF RTrim
  <1>5. DOMAIN r = Index
    BY DEF RTrim
  <1> HIDE DEF r
  <1>6. t[n] = NUL /\ \A j \in Index : j # n => t[j] = r[j]
    BY <1>1, <1>5 DEF Terminate, Index
  <1>7. m < N /\ (\A j \in 1..m : t[j - 1] = s[j]) /\ t[m] = NUL
    BY DEF Equal, PassOf, b, r
  <1> HIDE DEF t
  <1>8. m <= n
    <2> SUFFICES ASSUME m > n PROVE FALSE
      BY <1>1
    <2>1. n + 1 \in 1..m /\ (n + 1) - 1 = n
      BY <1>1
    <2> QED
      BY <1>2, <1>6, <1>7, <2>1
  <1>9. ASSUME NEW j \in 1..m
        PROVE  c[j] = s[j] /\ c[j] # NUL
    <2>1. j - 1 \in Index /\ j - 1 # n /\ j - 1 \in 0..n - 1 /\ (j - 1) + 1 = j /\ j \in 1..j
      BY <1>1, <1>8 DEF Index
    <2>2. r[j - 1] = s[j] /\ s[j] # NUL
      BY <1>2, <1>6, <1>7, <2>1
    <2>3. b[j - 1] = s[j] /\ b[j - 1] # NUL
      BY <1>4, <2>1, <2>2
    <2> QED
      BY <1>3, <2>1, <2>3 DEF Copied
  <1>10. ASSUME NEW k \in m + 1..n, \A i \in m + 1..k : c[i] # NUL
         PROVE  c[k] \in Spaces
    <2>1. \A i \in 1..k : c[i] # NUL
      <3> TAKE i \in 1..k
      <3>1. i \in 1..m \/ i \in m + 1..k
        BY <1>1
      <3> QED
        BY <3>1, <1>9, <1>10
    <2>2. m \in Index /\ m # n /\ k - 1 \in m..N - 1 /\ k - 1 \in 0..n - 1 /\ (k - 1) + 1 = k
      BY <1>1 DEF Index
    <2>3. ASSUME NEW i \in 0..k - 1 PROVE b[i] # NUL
      <3>1. i \in 0..n - 1 /\ \A l \in 1..i + 1 : l \in 1..k
        BY <1>1
      <3> QED
        BY <1>3, <2>1, <3>1 DEF Copied
    <2>4. InString(b, k - 1)
      BY <2>3 DEF InString
    <2>5. b[m] # NUL /\ b[k - 1] # NUL
      BY <1>1, <2>3
    <2>6. r[m] = NUL
      BY <1>6, <1>7, <2>2
    <2>7. b[k - 1] \in Spaces
      BY <1>4, <2>2, <2>4, <2>5, <2>6
    <2>8. b[k - 1] = c[k]
      BY <1>3, <2>2, <2>5 DEF Copied
    <2> QED
      BY <2>7, <2>8
  <1> QED
    BY <1>8, <1>9, <1>10 DEF Means

-----------------------------------------------------------------------------
(* The name that waits for its password is the account's exactly if it was  *)
(* meant to be, nothing is left in loginPass behind the longest password so *)
(* far, and the two properties.                                             *)
NameKnown == pc \in {"ask_pass", "pass"} => (Equal(loginName, User) <=> named)
TailIsOld == longest \in Nat /\ \A j \in Index : j >= longest => loginPass[j] = NUL
LoginInv == NameKnown /\ TailIsOld /\ OnlyAccountGetsIn /\ RefusedOnlyAfterLonger

LEMMA ReadNameKeeps ==
    ASSUME LoginInv, NEW c \in Names, ReadName(c)
    PROVE  LoginInv'
  <1>1. c \in Chunks /\ Len(c) < N
    BY DEF Chunks, ReadName
  <1>2. NameKnown'
    BY <1>1, NameIsMeant DEF ReadName, NameKnown
  <1>3. TailIsOld'
    BY DEF ReadName, LoginInv, TailIsOld
  <1>4. pc' \notin Entered /\ ~right'
    BY DEF ReadName, NextTry, Entered
  <1> QED
    BY <1>2, <1>3, <1>4 DEF LoginInv, OnlyAccountGetsIn, RefusedOnlyAfterLonger

LEMMA ReadPassKeeps ==
    ASSUME LoginInv, NEW c \in Passwords, ReadPass(c)
    PROVE  LoginInv'
  <1>1. c \in Chunks /\ Len(c) < N /\ Len(c) \in Nat
    BY ChunksAssumption DEF Chunks, ReadPass
  <1>2. /\ pc = "pass"
        /\ loginPass' = PassOf(loginPass, c)
        /\ right' = (named /\ Means(c, Pass))
        /\ shadowed' = (longest > Len(c))
        /\ longest' = IF longest > Len(c) THEN longest ELSE Len(c)
    BY DEF ReadPass
  <1>3. longest \in Nat /\ \A j \in Index : j >= longest => loginPass[j] = NUL
    BY DEF LoginInv, TailIsOld
  <1>4. Equal(loginName, User) <=> named
    BY <1>2 DEF LoginInv, NameKnown
  <1>5. NameKnown'
    BY DEF ReadPass, NextTry, NameKnown
  <1>6. TailIsOld'
    <2>1. longest' \in Nat /\ longest' >= longest /\ longest' >= Len(c)
      BY <1>1, <1>2, <1>3
    <2>2. ASSUME NEW j \in Index, j >= longest' PROVE loginPass'[j] = NUL
      <3> DEFINE b == StrNCpy(loginPass, c)
      <3>1. b[j] = NUL
        BY <1>1, <1>3, <2>1, <2>2, CopiedByStrNCpy DEF Index
      <3>2. RTrim(b)[j] = NUL /\ DOMAIN RTrim(b) = Index
        BY <3>1 DEF RTrim
      <3> HIDE DEF b
      <3>3. Terminate(RTrim(b), Len(c))[j] = NUL
        BY <3>2 DEF Terminate
      <3> QED
        BY <1>2, <3>3 DEF PassOf, b
    <2> QED
      BY <2>1, <2>2 DEF TailIsOld
  <1>7. pc' \in Entered <=> named /\ Equal(loginPass', Pass)
    BY <1>4 DEF ReadPass, NextTry, IsAccountValid, Entered
  <1>8. OnlyAccountGetsIn'
    BY <1>1, <1>2, <1>7, PassNeverExtended DEF OnlyAccountGetsIn
  <1>9. RefusedOnlyAfterLonger'
    <2> SUFFICES ASSUME right', ~shadowed' PROVE pc' \in Entered
      BY DEF RefusedOnlyAfterLonger
    <2>1. \A j \in Index : j >= Len(c) => loginPass[j] = NUL
      <3>1. ~(longest > Len(c))
        BY <1>2, Zenon
      <3> QED
        BY <1>1, <1>3, <3>1 DEF Index
    <2>2. Equal(PassOf(loginPass, c), Pass) <=> Means(c, Pass)
      BY <1>1, <2>1, PassIsMeant
    <2> QED
      BY <1>2, <1>7, <2>2
  <1> QED
    BY <1>5, <1>6, <1>8, <1>9 DEF LoginInv

LEMMA LoginInvInductive ==
    ASSUME LoginInv, [Next]_vars
    PROVE  LoginInv'
  <1> USE DEF LoginInv, NameKnown, TailIsOld, OnlyAccountGetsIn, RefusedOnlyAfterLonger,
              Entered, strings, history
  <1>1. CASE Start
    BY <1>1 DEF Start
  <1>2. CASE AskName
    BY <1>2 DEF AskName
  <1>3. CASE AskPass
    BY <1>3 DEF AskPass
  <1>4. CASE Welcome
    BY <1>4 DEF Welcome
  <1>5. CASE PeerLost
    BY <1>5 DEF PeerLost
  <1>6. ASSUME NEW c \in Names, ReadName(c) PROVE LoginInv'
    BY <1>6, ReadNameKeeps
  <1>7. ASSUME NEW c \in Passwords, ReadPass(c) PROVE LoginInv'
    BY <1>7, ReadPassKeeps
  <1>8. ASSUME NEW c \in Chunks, Overrun(c) PROVE LoginInv'
    BY <1>8 DEF Overrun
  <1>9. CASE ServerReceives
    BY <1>9 DEF ServerReceives
  <1>10. CASE TerminalReceives
    BY <1>10 DEF TerminalReceives
  <1>11. CASE UNCHANGED vars
    BY <1>11 DEF vars
  <1> QED
    BY <1>1, <1>2, <1>3, <1>4, <1>5, <1>6, <1>7, <1>8, <1>9, <1>10, <1>11 DEF Next

LEMMA LoginInvHolds == Spec => []LoginInv
  <1>1. Init => LoginInv
    BY DEF Init, LoginInv, NameKnown, TailIsOld, OnlyAccountGetsIn, RefusedOnlyAfterLonger, Entered
  <1>2. LoginInv /\ [Next]_vars => LoginInv'
    BY LoginInvInductive
  <1> QED
    BY <1>1, <1>2, PTL DEF Spec

(* The login of TelnetBackpack_newWithAuth lets nobody in who did not give  *)
(* the account, whatever an earlier attempt left in its arrays.             *)
THEOREM OnlyTheAccount == Spec => []OnlyAccountGetsIn
  <1>1. LoginInv => OnlyAccountGetsIn
    BY DEF LoginInv
  <1> QED
    BY <1>1, LoginInvHolds, PTL

(* It turns away who gives the account only behind a longer password: with  *)
(* its first attempt, say, everybody gets in who has the right to.          *)
THEOREM AccountGetsIn == Spec => []RefusedOnlyAfterLonger
  <1>1. LoginInv => RefusedOnlyAfterLonger
    BY DEF LoginInv
  <1> QED
    BY <1>1, LoginInvHolds, PTL

-----------------------------------------------------------------------------
(* A link that carries one command. *)
One(b) == <<b>>

LEMMA OneCommand ==
    ASSUME NEW b
    PROVE  Append(<<>>, b) = One(b) /\ Head(One(b)) = b /\ Tail(One(b)) = <<>> /\ One(b) # <<>>
  BY DEF One

LEMMA OneIsSeq == <<>> \in Seq(BOOLEAN) /\ \A b \in BOOLEAN : One(b) \in Seq(BOOLEAN)
  BY DEF One

(* Where the negotiation of ECHO can be: at rest, or one command on its     *)
(* way, and which one says what both ends believe.                          *)
AtRest == toTerm = <<>> /\ toServ = <<>> /\ echo = term
AskedYes ==
    /\ echo \in {"WANTYES", "WANTYES_OP"}
    /\ \/ toTerm = One(TRUE) /\ toServ = <<>> /\ term = "NO"
       \/ toTerm = <<>> /\ toServ = One(TRUE) /\ term = "YES"
       \/ toTerm = <<>> /\ toServ = One(FALSE) /\ term = "NO" /\ ~accepts
AskedNo ==
    /\ echo \in {"WANTNO", "WANTNO_OP"}
    /\ \/ toTerm = One(FALSE) /\ toServ = <<>> /\ term = "YES"
       \/ toTerm = <<>> /\ toServ = One(FALSE) /\ term = "NO"
EchoLink ==
    /\ accepts \in BOOLEAN
    /\ term \in {"NO", "YES"} /\ (term = "YES" => accepts)
    /\ AtRest \/ AskedYes \/ AskedNo

(* What the server's end is heading for at each prompt, whatever was asked  *)
(* before: a state that wants echo off, or one that wants it on.            *)
TowardsNo == {"NO", "WANTNO", "WANTYES_OP"}
TowardsYes == {"YES", "WANTYES", "WANTNO_OP"}
EchoAim ==
    /\ pc \in {"name", "ask_pass", "in"} => echo \in TowardsNo
    /\ pc \in {"pass", "welcome"} => echo \in TowardsYes \/ (~accepts /\ echo = "NO")

EchoInv == EchoLink /\ EchoAim

(* The rows of the tables that this negotiation uses. *)
Does(row, state, sent) == row.next = state /\ row.send = sent

LEMMA AskRows ==
    /\ Does(OnAskYes("NO"), "WANTYES", "yes")
    /\ \A q \in {"YES", "WANTYES", "WANTNO_OP"} : Does(OnAskYes(q), q, "none")
    /\ Does(OnAskYes("WANTNO"), "WANTNO_OP", "none")
    /\ Does(OnAskYes("WANTYES_OP"), "WANTYES", "none")
    /\ Does(OnAskNo("YES"), "WANTNO", "no")
    /\ \A q \in {"NO", "WANTNO", "WANTYES_OP"} : Does(OnAskNo(q), q, "none")
    /\ Does(OnAskNo("WANTYES"), "WANTYES_OP", "none")
    /\ Does(OnAskNo("WANTNO_OP"), "WANTNO", "none")
  BY DEF OnAskYes, OnAskNo, Does, Row, Nothing

LEMMA AnswerRows ==
    /\ Does(OnYes("WANTYES", FALSE), "YES", "none")
    /\ Does(OnYes("WANTYES_OP", FALSE), "WANTNO", "no")
    /\ Does(OnNo("WANTYES"), "NO", "none")
    /\ Does(OnNo("WANTYES_OP"), "NO", "none")
    /\ Does(OnNo("WANTNO"), "NO", "none")
    /\ Does(OnNo("WANTNO_OP"), "WANTYES", "yes")
    /\ Does(OnYes("NO", TRUE), "YES", "yes")
    /\ Does(OnYes("NO", FALSE), "NO", "no")
    /\ Does(OnNo("YES"), "NO", "no")
  BY DEF OnYes, OnNo, Does, Row, Nothing

(* What a half sends for a row, on a link. *)
Sends(row, link) == IF row.send = "none" THEN link ELSE Append(link, row.send = "yes")

LEMMA SendsOne ==
    ASSUME NEW row
    PROVE  /\ row.send = "none" => \A link : Sends(row, link) = link
           /\ row.send = "yes" => Sends(row, <<>>) = One(TRUE)
           /\ row.send = "no" => Sends(row, <<>>) = One(FALSE)
  <1>1. CASE row.send = "yes"
    <2>1. (row.send = "yes") = TRUE
      BY <1>1
    <2> QED
      BY <1>1, <2>1, OneCommand DEF Sends
  <1>2. CASE row.send = "no"
    <2>1. (row.send = "yes") = FALSE
      BY <1>2
    <2> QED
      BY <1>2, <2>1, OneCommand DEF Sends
  <1>3. CASE row.send = "none"
    BY <1>3 DEF Sends
  <1> QED
    BY <1>1, <1>2, <1>3

LEMMA NegotiateKeeps ==
    ASSUME EchoLink, NEW yes \in BOOLEAN, Negotiate(yes)
    PROVE  EchoLink' /\ echo' \in IF yes THEN TowardsYes ELSE TowardsNo
  <1>0. UNCHANGED <<term, accepts, toServ>>
    BY DEF Negotiate
  <1>1. CASE yes
    <2> DEFINE row == OnAskYes(echo)
    <2>1. echo' = row.next /\ toTerm' = Sends(row, toTerm)
      BY <1>1 DEF Negotiate, Sends
    <2>2. CASE echo = "NO"
      <3>1. toTerm = <<>> /\ toServ = <<>> /\ term = "NO"
        BY <2>2 DEF EchoLink, AtRest, AskedYes, AskedNo
      <3>2. echo' = "WANTYES" /\ toTerm' = One(TRUE)
        BY <2>1, <2>2, <3>1, AskRows, SendsOne DEF Does
      <3> QED
        BY <1>0, <1>1, <3>1, <3>2 DEF EchoLink, AskedYes, TowardsYes
    <2>3. CASE echo # "NO"
      <3>1. echo \in {"YES", "WANTYES", "WANTNO_OP", "WANTNO", "WANTYES_OP"}
        BY <2>3 DEF EchoLink, AtRest, AskedYes, AskedNo
      <3>2. /\ toTerm' = toTerm
            /\ echo \in {"YES", "WANTYES", "WANTNO_OP"} => echo' = echo
            /\ echo = "WANTNO" => echo' = "WANTNO_OP"
            /\ echo = "WANTYES_OP" => echo' = "WANTYES"
        <4>1. Does(row, echo', "none")
          BY <2>1, <3>1, AskRows DEF Does
        <4> QED
          BY <2>1, <3>1, <4>1, AskRows, SendsOne DEF Does
      <3> QED
        BY <1>0, <1>1, <3>1, <3>2 DEF EchoLink, AtRest, AskedYes, AskedNo, TowardsYes
    <2> QED
      BY <2>2, <2>3
  <1>2. CASE ~yes
    <2> DEFINE row == OnAskNo(echo)
    <2>1. echo' = row.next /\ toTerm' = Sends(row, toTerm)
      BY <1>2 DEF Negotiate, Sends
    <2>2. CASE echo = "YES"
      <3>1. toTerm = <<>> /\ toServ = <<>> /\ term = "YES"
        BY <2>2 DEF EchoLink, AtRest, AskedYes, AskedNo
      <3>2. echo' = "WANTNO" /\ toTerm' = One(FALSE)
        BY <2>1, <2>2, <3>1, AskRows, SendsOne DEF Does
      <3> QED
        BY <1>0, <1>2, <3>1, <3>2 DEF EchoLink, AskedNo, TowardsNo
    <2>3. CASE echo # "YES"
      <3>1. echo \in {"NO", "WANTYES", "WANTNO_OP", "WANTNO", "WANTYES_OP"}
        BY <2>3 DEF EchoLink, AtRest, AskedYes, AskedNo
      <3>2. /\ toTerm' = toTerm
            /\ echo \in {"NO", "WANTNO", "WANTYES_OP"} => echo' = echo
            /\ echo = "WANTYES" => echo' = "WANTYES_OP"
            /\ echo = "WANTNO_OP" => echo' = "WANTNO"
        <4>1. Does(row, echo', "none")
          BY <2>1, <3>1, AskRows DEF Does
        <4> QED
          BY <2>1, <3>1, <4>1, AskRows, SendsOne DEF Does
      <3> QED
        BY <1>0, <1>2, <3>1, <3>2 DEF EchoLink, AtRest, AskedYes, AskedNo, TowardsNo
    <2> QED
      BY <2>2, <2>3
  <1> QED
    BY <1>1, <1>2

LEMMA ServerKeeps ==
    ASSUME EchoInv, ServerReceives
    PROVE  EchoInv'
  <1> DEFINE row == IF Head(toServ) THEN OnYes(echo, FALSE) ELSE OnNo(echo)
  <1>1. /\ pc \in Waiting /\ toServ # <<>>
        /\ echo' = row.next /\ toServ' = Tail(toServ) /\ toTerm' = Sends(row, toTerm)
        /\ UNCHANGED <<pc, term, accepts>>
    BY DEF ServerReceives, Sends
  <1>2. toTerm = <<>>
    BY <1>1 DEF EchoInv, EchoLink, AtRest, AskedYes, AskedNo
  <1>3. CASE toServ = One(TRUE) /\ term = "YES" /\ echo \in {"WANTYES", "WANTYES_OP"}
    <2>1. row = OnYes(echo, FALSE) /\ toServ' = <<>>
      BY <1>1, <1>3, OneCommand
    <2> HIDE DEF row
    <2>2. CASE echo = "WANTYES"
      <3>1. echo' = "YES" /\ toTerm' = <<>>
        BY <1>1, <1>2, <2>1, <2>2, AnswerRows, SendsOne DEF Does
      <3> QED
        BY <1>1, <1>3, <2>1, <2>2, <3>1 DEF EchoInv, EchoLink, EchoAim, AtRest, TowardsYes, TowardsNo
    <2>3. CASE echo = "WANTYES_OP"
      <3>1. echo' = "WANTNO" /\ toTerm' = One(FALSE)
        BY <1>1, <1>2, <2>1, <2>3, AnswerRows, SendsOne DEF Does
      <3> QED
        BY <1>1, <1>3, <2>1, <2>3, <3>1 DEF EchoInv, EchoLink, EchoAim, AskedNo, TowardsYes, TowardsNo
    <2> QED
      BY <1>3, <2>2, <2>3
  <1>4. CASE /\ toServ = One(FALSE) /\ term = "NO"
             /\ echo \in {"WANTNO", "WANTNO_OP"} \/ (echo \in {"WANTYES", "WANTYES_OP"} /\ ~accepts)
    <2>1. row = OnNo(echo) /\ toServ' = <<>>
      BY <1>1, <1>4, OneCommand
    <2> HIDE DEF row
    <2>2. CASE echo # "WANTNO_OP"
      <3>1. echo' = "NO" /\ toTerm' = <<>>
        <4>1. Does(row, "NO", "none")
          BY <1>4, <2>1, <2>2, AnswerRows
        <4> QED
          BY <1>1, <1>2, <4>1, SendsOne DEF Does
      <3> QED
        BY <1>1, <1>4, <2>1, <2>2, <3>1 DEF EchoInv, EchoLink, EchoAim, AtRest, TowardsYes, TowardsNo
    <2>3. CASE echo = "WANTNO_OP"
      <3>1. echo' = "WANTYES" /\ toTerm' = One(TRUE)
        BY <1>1, <1>2, <2>1, <2>3, AnswerRows, SendsOne DEF Does
      <3> QED
        BY <1>1, <1>4, <2>1, <2>3, <3>1 DEF EchoInv, EchoLink, EchoAim, AskedYes, TowardsYes, TowardsNo
    <2> QED
      BY <2>2, <2>3
  <1> QED
    BY <1>1, <1>3, <1>4 DEF EchoInv, EchoLink, AtRest, AskedYes, AskedNo

LEMMA TerminalKeeps ==
    ASSUME EchoInv, TerminalReceives
    PROVE  EchoInv'
  <1> DEFINE row == IF Head(toTerm) THEN OnYes(term, accepts) ELSE OnNo(term)
  <1>1. /\ toTerm # <<>>
        /\ term' = row.next /\ toTerm' = Tail(toTerm) /\ toServ' = Sends(row, toServ)
        /\ UNCHANGED <<pc, echo, accepts>>
    BY DEF TerminalReceives, Sends
  <1>2. toServ = <<>> /\ EchoAim' /\ accepts \in BOOLEAN
    BY <1>1 DEF EchoInv, EchoLink, EchoAim, AtRest, AskedYes, AskedNo
  <1>3. CASE toTerm = One(TRUE) /\ term = "NO" /\ echo \in {"WANTYES", "WANTYES_OP"}
    <2>1. row = OnYes("NO", accepts) /\ toTerm' = <<>>
      BY <1>1, <1>3, OneCommand
    <2> HIDE DEF row
    <2>2. CASE accepts
      <3>1. accepts = TRUE
        BY <1>2, <2>2
      <3>2. term' = "YES" /\ toServ' = One(TRUE)
        BY <1>1, <1>2, <2>1, <3>1, AnswerRows, SendsOne DEF Does
      <3> QED
        BY <1>1, <1>2, <1>3, <2>1, <2>2, <3>2 DEF EchoInv, EchoLink, AskedYes
    <2>3. CASE ~accepts
      <3>1. accepts = FALSE
        BY <1>2, <2>3
      <3>2. term' = "NO" /\ toServ' = One(FALSE)
        BY <1>1, <1>2, <2>1, <3>1, AnswerRows, SendsOne DEF Does
      <3> QED
        BY <1>1, <1>2, <1>3, <2>1, <2>3, <3>2 DEF EchoInv, EchoLink, AskedYes
    <2> QED
      BY <2>2, <2>3
  <1>4. CASE toTerm = One(FALSE) /\ term = "YES" /\ echo \in {"WANTNO", "WANTNO_OP"}
    <2>1. row = OnNo("YES") /\ toTerm' = <<>>
      BY <1>1, <1>4, OneCommand
    <2> HIDE DEF row
    <2>2. term' = "NO" /\ toServ' = One(FALSE)
      BY <1>1, <1>2, <2>1, AnswerRows, SendsOne DEF Does
    <2> QED
      BY <1>1, <1>2, <1>4, <2>1, <2>2 DEF EchoInv, EchoLink, AskedNo
  <1> QED
    BY <1>1, <1>3, <1>4 DEF EchoInv, EchoLink, AtRest, AskedYes, AskedNo

LEMMA EchoInvHolds == Spec => []EchoInv
  <1>1. Init => EchoInv
    BY DEF Init, EchoInv, EchoLink, EchoAim, AtRest
  <1>2. ASSUME EchoInv, [Next]_vars PROVE EchoInv'
    <2>1. CASE Start \/ AskPass
      <3>1. Negotiate(TRUE) /\ pc' \in {"ask_name", "pass"}
        BY <2>1 DEF Start, AskPass
      <3>2. EchoLink' /\ echo' \in TowardsYes
        BY <1>2, <3>1, NegotiateKeeps DEF EchoInv
      <3> QED
        BY <3>1, <3>2 DEF EchoInv, EchoAim
    <2>2. CASE AskName \/ Welcome
      <3>1. Negotiate(FALSE) /\ pc' \in {"name", "in"}
        BY <2>2 DEF AskName, Welcome
      <3>2. EchoLink' /\ echo' \in TowardsNo
        BY <1>2, <3>1, NegotiateKeeps DEF EchoInv
      <3> QED
        BY <3>1, <3>2 DEF EchoInv, EchoAim
    <2>3. ASSUME UNCHANGED option,
                 \/ pc' = pc \/ pc' \in {"ask_name", "failed", "undefined"}
                 \/ pc = "name" /\ pc' = "ask_pass"
                 \/ pc = "pass" /\ pc' = "welcome"
          PROVE  EchoInv'
      <3>1. EchoLink'
        BY <1>2, <2>3 DEF EchoInv, EchoLink, AtRest, AskedYes, AskedNo, option
      <3>2. EchoAim'
        BY <1>2, <2>3 DEF EchoInv, EchoAim, option
      <3> QED
        BY <3>1, <3>2 DEF EchoInv
    <2>4. CASE PeerLost \/ (\E c \in Chunks : Overrun(c)) \/ UNCHANGED vars
      BY <2>3, <2>4 DEF PeerLost, Overrun, vars
    <2>5. ASSUME NEW c \in Names, ReadName(c) PROVE EchoInv'
      BY <2>3, <2>5 DEF ReadName, NextTry
    <2>6. ASSUME NEW c \in Passwords, ReadPass(c) PROVE EchoInv'
      BY <2>3, <2>6 DEF ReadPass, NextTry
    <2>7. CASE ServerReceives
      BY <1>2, <2>7, ServerKeeps
    <2>8. CASE TerminalReceives
      BY <1>2, <2>8, TerminalKeeps
    <2> QED
      BY <1>2, <2>1, <2>2, <2>4, <2>5, <2>6, <2>7, <2>8 DEF Next
  <1> QED
    BY <1>1, <1>2, PTL DEF Spec

(* However fast the prompts follow one another and however late the         *)
(* terminal answers: once no command is on its way, the terminal hides what *)
(* is typed at the password prompt, shows it everywhere else, and the       *)
(* server knows - unless it refuses ECHO, then it always shows it.          *)
THEOREM PasswordHides == Spec => []PasswordHidden
  <1>1. EchoInv => PasswordHidden
    <2> SUFFICES ASSUME EchoInv, pc \in Waiting, Quiet
                 PROVE  LET state == IF pc = "pass" /\ accepts THEN "YES" ELSE "NO"
                        IN  echo = state /\ term = state
      BY DEF PasswordHidden
    <2>1. echo = term /\ term \in {"NO", "YES"} /\ (term = "YES" => accepts)
      BY OneCommand DEF Quiet, EchoInv, EchoLink, AtRest, AskedYes, AskedNo
    <2>2. CASE pc = "pass"
      BY <2>1, <2>2 DEF EchoInv, EchoAim, TowardsYes
    <2>3. CASE pc \in {"name", "in"}
      BY <2>1, <2>3 DEF EchoInv, EchoAim, TowardsNo
    <2> QED
      BY <2>2, <2>3 DEF Waiting
  <1> QED
    BY <1>1, EchoInvHolds, PTL

-----------------------------------------------------------------------------
(* The arrays stay arrays of characters, and nothing is kept outside them.  *)
LEMMA ArraysStay ==
    ASSUME NEW a \in [Index -> Chars], NEW c \in Chunks, Len(c) < N
    PROVE  NameOf(a, c) \in [Index -> Chars] /\ PassOf(a, c) \in [Index -> Chars]
  <1> DEFINE b == StrNCpy(a, c)
  <1>1. NUL \in Chars
    BY DEF Chars
  <1>2. b \in [Index -> Chars]
    <2> SUFFICES ASSUME NEW j \in Index
                 PROVE  (IF j >= Len(c) THEN a[j]
                         ELSE IF \E k \in 1..j + 1 : c[k] = NUL THEN NUL ELSE c[j + 1]) \in Chars
      BY DEF StrNCpy
    <2>1. CASE j >= Len(c)
      BY <2>1
    <2>2. CASE ~(j >= Len(c))
      <3>1. Len(c) \in 1..N /\ DOMAIN c = 1..Len(c) /\ N \in Nat
        BY ChunksAssumption, SizesAssumption
      <3>2. j + 1 \in DOMAIN c
        BY <2>2, <3>1 DEF Index
      <3>3. c[j + 1] \in UNION {{s[i] : i \in DOMAIN s} : s \in Chunks \cup {User, Pass}}
        <4>1. c[j + 1] \in {c[i] : i \in DOMAIN c}
          BY <3>2
        <4> QED
          BY <4>1
      <3>4. c[j + 1] \in Chars
        BY <3>3 DEF Chars
      <3> QED
        BY <1>1, <2>2, <3>4
    <2> QED
      BY <2>1, <2>2
  <1> HIDE DEF b
  <1>3. ASSUME NEW x \in [Index -> Chars] PROVE RTrim(x) \in [Index -> Chars]
    BY <1>1, <1>3 DEF RTrim
  <1>4. ASSUME NEW x \in [Index -> Chars] PROVE Terminate(x, Len(c)) \in [Index -> Chars]
    BY <1>1, <1>4 DEF Terminate
  <1>5. NameOf(a, c) = RTrim(Terminate(b, Len(c))) /\ PassOf(a, c) = Terminate(RTrim(b), Len(c))
    BY DEF NameOf, PassOf, b
  <1> QED
    BY <1>2, <1>3, <1>4, <1>5

LEMMA LinkIsTyped ==
    ASSUME EchoLink
    PROVE  /\ echo \in QStates /\ term \in QStates /\ accepts \in BOOLEAN
           /\ toTerm \in Seq(BOOLEAN) /\ toServ \in Seq(BOOLEAN)
  BY OneIsSeq DEF EchoLink, AtRest, AskedYes, AskedNo, QStates

(* What is typed besides the link. *)
Steps == {"start", "ask_name", "name", "ask_pass", "pass", "failed", "undefined"} \cup Entered
PromptsOK ==
    /\ pc \in Steps
    /\ try \in 0..MaxTry - 1
    /\ loginName \in [Index -> Chars] /\ loginPass \in [Index -> Chars]
    /\ longest \in 0..N - 1
FlagsOK == named \in BOOLEAN /\ right \in BOOLEAN /\ shadowed \in BOOLEAN

(* Every variable keeps its type: in particular nothing is stored outside   *)
(* the arrays, and the loop counter stays below MAX_TRY.                    *)
THEOREM LoginTypeOK == Spec => []TypeOK
  <1> USE SizesAssumption
  <1>1. Init => PromptsOK /\ FlagsOK
    <2> SUFFICES ASSUME Init PROVE PromptsOK /\ FlagsOK
      OBVIOUS
    <2>1. NUL \in Chars
      BY DEF Chars
    <2>2. loginName \in [Index -> Chars] /\ loginPass \in [Index -> Chars]
      BY <2>1 DEF Init
    <2>3. pc \in Steps /\ try \in 0..MaxTry - 1 /\ longest \in 0..N - 1
      BY DEF Init, Steps
    <2>4. FlagsOK
      BY DEF Init, FlagsOK
    <2> QED
      BY <2>2, <2>3, <2>4 DEF PromptsOK
  <1>2. ASSUME PromptsOK, [Next]_vars PROVE PromptsOK'
    <2> USE DEF PromptsOK
    <2>0. ASSUME NextTry PROVE pc' \in Steps /\ try' \in 0..MaxTry - 1
      BY <1>2, <2>0 DEF NextTry, Steps
    <2>1. CASE Start \/ AskName \/ AskPass \/ Welcome
      BY <1>2, <2>1 DEF Start, AskName, AskPass, Welcome, strings, history, Steps, Entered
    <2>2. CASE PeerLost \/ (\E c \in Chunks : Overrun(c)) \/ ServerReceives \/ TerminalReceives
      BY <1>2, <2>2 DEF PeerLost, Overrun, ServerReceives, TerminalReceives, strings, history, Steps
    <2>3. ASSUME NEW c \in Names, ReadName(c) PROVE PromptsOK'
      <3>1. c \in Chunks /\ Len(c) < N
        BY <2>3 DEF ReadName, Chunks
      <3>2. loginName' \in [Index -> Chars]
        BY <1>2, <2>3, <3>1, ArraysStay DEF ReadName
      <3>3. pc' \in Steps /\ try' \in 0..MaxTry - 1
        BY <1>2, <2>0, <2>3 DEF ReadName, Steps
      <3> QED
        BY <1>2, <2>3, <3>2, <3>3 DEF ReadName
    <2>4. ASSUME NEW c \in Passwords, ReadPass(c) PROVE PromptsOK'
      <3>1. c \in Chunks /\ Len(c) < N /\ Len(c) \in 1..N
        BY <2>4, ChunksAssumption DEF ReadPass, Chunks
      <3>2. loginPass' \in [Index -> Chars]
        BY <1>2, <2>4, <3>1, ArraysStay DEF ReadPass
      <3>3. pc' \in Steps /\ try' \in 0..MaxTry - 1
        BY <1>2, <2>0, <2>4 DEF ReadPass, Steps, Entered
      <3>4. longest' \in 0..N - 1
        BY <1>2, <2>4, <3>1 DEF ReadPass
      <3> QED
        BY <1>2, <2>4, <3>2, <3>3, <3>4 DEF ReadPass
    <2>5. CASE UNCHANGED vars
      BY <1>2, <2>5 DEF vars, strings, history
    <2> QED
      BY <1>2, <2>1, <2>2, <2>3, <2>4, <2>5 DEF Next
  <1>3. ASSUME FlagsOK, [Next]_vars PROVE FlagsOK'
    <2>1. ASSUME NEW c \in Names, ReadName(c) PROVE FlagsOK'
      <3>1. named' \in BOOLEAN /\ right' \in BOOLEAN /\ shadowed' = shadowed
        BY <2>1 DEF ReadName, Means
      <3> QED
        BY <1>3, <3>1 DEF FlagsOK
    <2>2. ASSUME NEW c \in Passwords, ReadPass(c) PROVE FlagsOK'
      <3>1. right' \in BOOLEAN /\ shadowed' \in BOOLEAN /\ named' = named
        BY <2>2 DEF ReadPass
      <3> QED
        BY <1>3, <3>1 DEF FlagsOK
    <2>3. CASE UNCHANGED history
      BY <1>3, <2>3 DEF FlagsOK, history
    <2> QED
      BY <1>3, <2>1, <2>2, <2>3
      DEF Next, Start, AskName, AskPass, Welcome, PeerLost, Overrun, ServerReceives,
          TerminalReceives, vars
  <1>4. PromptsOK /\ FlagsOK /\ EchoInv => TypeOK
    BY LinkIsTyped DEF EchoInv, PromptsOK, FlagsOK, TypeOK, Steps
  <1> QED
    BY <1>1, <1>2, <1>3, <1>4, EchoInvHolds, PTL DEF Spec
=============================================================================
